---- MODULE Spec2Model ----
(***************************************************************************)
(* Routing and dispatch core of ghast: the Router (lib/router.go), the     *)
(* middleware chain builder (lib/middleware.go), the response writer       *)
(* (lib/response.go) and the application dispatcher (Ghast.handleRequest). *)
(* Strings are sequences of one-character strings, so that prefix tests,   *)
(* splitting and trimming are computed as the Go code computes them.       *)
(***************************************************************************)
EXTENDS Integers, Sequences, FiniteSets, TLC

VARIABLES routers, g, last, prev, calls, ops,
          reg, hb, rateLimitCollection, now, serving, writer, inflight,
          connection

(* the state outside the routers and the dispatcher: the last chained
   registration, the HandlerBuilder, the rate limiter's table, the clock in
   seconds, the goroutine serving the connection, a ResponseWriter used on
   its own, the requests being handled concurrently, and a connection *)
others == <<reg, hb, rateLimitCollection, now, serving, writer, inflight, connection>>

vars == <<routers, g, last, prev, calls, ops, reg, hb, rateLimitCollection, now, serving,
          writer, inflight, connection>>

----------------------------------------------------------------------------
(* Bounds of the model *)

MaxHandle == 2
MaxUse == 2
MaxRoute == 2
MaxAppUse == 1
MaxBuilderUse == 2
MaxChain == 2
MaxUsePath == 2
MaxRequests == 4
MaxTicks == 3
RequestsPerMinute == 2
MaxWriterCalls == 3
MaxInflight == 2
MaxArrivals == 3

----------------------------------------------------------------------------
(* Strings *)

S_users_me == <<"/","u","s","e","r","s","/","m","e">>
S_users_id == <<"/","u","s","e","r","s","/",":","i","d">>
S_users_42 == <<"/","u","s","e","r","s","/","4","2">>
S_user_posts == <<"/","u","s","e","r","s","/",":","u","s","e","r","I","d","/","p","o","s","t","s","/",":","p","o","s","t","I","d">>
S_users_456_posts_789 == <<"/","u","s","e","r","s","/","4","5","6","/","p","o","s","t","s","/","7","8","9">>
S_users_name == <<"/","u","s","e","r","s","/",":","n","a","m","e">>
S_users_slash == <<"/","u","s","e","r","s","/">>
S_users_1_posts == <<"/","u","s","e","r","s","/","1","/","p","o","s","t","s">>
S_name == <<"n","a","m","e">>
S_nonexistent == <<"/","n","o","n","e","x","i","s","t","e","n","t">>
S_use == <<"/", "u", "s", "e">>
S_users == <<"/", "u", "s", "e", "r", "s">>
S_root == <<"/">>
S_api == <<"/","a","p","i">>
S_api_admin == <<"/","a","p","i","/","a","d","m","i","n">>
S_api_admin_stats == <<"/","a","p","i","/","a","d","m","i","n","/","s","t","a","t","s">>
S_api_stats == <<"/","a","p","i","/","s","t","a","t","s">>
S_apix == <<"/","a","p","i","x">>
S_stats == <<"/","s","t","a","t","s">>
S_admin_stats == <<"/","a","d","m","i","n","/","s","t","a","t","s">>
S_userId == <<"u","s","e","r","I","d">>
S_postId == <<"p","o","s","t","I","d">>
S_id == <<"i","d">>
S_456 == <<"4","5","6">>
S_789 == <<"7","8","9">>

(* strings.HasPrefix *)
HasPrefix(s, p) == Len(p) <= Len(s) /\ SubSeq(s, 1, Len(p)) = p

(* strings.TrimPrefix *)
TrimPrefix(s, p) == IF HasPrefix(s, p) THEN SubSeq(s, Len(p) + 1, Len(s)) ELSE s

(* strings.Split(s, "/"): the segments between separators, empty ones kept *)
RECURSIVE SplitFrom(_, _, _)
SplitFrom(s, i, cur) ==
    IF i > Len(s) THEN <<cur>>
    ELSE IF s[i] = "/" THEN <<cur>> \o SplitFrom(s, i + 1, <<>>)
    ELSE SplitFrom(s, i + 1, Append(cur, s[i]))

Split(s) == SplitFrom(s, 1, <<>>)

----------------------------------------------------------------------------
(* Maps: a Go map is a function on the set of its keys *)

EmptyMap == [k \in {} |-> 0]

MapPut(m, k, v) == [x \in (DOMAIN m) \cup {k} |-> IF x = k THEN v ELSE m[x]]

----------------------------------------------------------------------------
(* Requests *)

(* the parameter map of a request: a nil map or an allocated one *)
NilParams == [nil |-> TRUE, m |-> EmptyMap]
MakeParams == [nil |-> FALSE, m |-> EmptyMap]

Request(method, path, params) == [Method |-> method, Path |-> path, Params |-> params]

(* a request as the server passes it on: with its headers and the client's
   address *)
RequestFrom(method, path, headers, clientIP) ==
    [Method |-> method, Path |-> path, Params |-> MakeParams,
     Headers |-> headers, ClientIP |-> clientIP]

----------------------------------------------------------------------------
(* Names drawn on by the actions *)

RouterIds == {"root", "api", "admin"}
Methods == {"GET", "POST"}
Handlers == {"H1", "H2"}
Middlewares == {"M1", "M2"}

(* HandlerFunc(f): a handler with no middleware around it *)
HandlerFunc(h) == [layers |-> <<>>, base |-> h]

(* middleware(handler): the returned handler runs the middleware around
   the handler it was given; layers lists the wrappers, outermost first *)
ApplyMiddleware(m, handler) == [handler EXCEPT !.layers = <<m>> \o @]

(* ChainMiddleware: handler = middleware(handler) for each middleware of
   the slice, in slice order *)
RECURSIVE ChainFrom(_, _, _)
ChainFrom(handler, middlewares, i) ==
    IF i > Len(middlewares) THEN handler
    ELSE ChainFrom(ApplyMiddleware(middlewares[i], handler), middlewares, i + 1)

ChainMiddleware(handler, middlewares) == ChainFrom(handler, middlewares, 1)

----------------------------------------------------------------------------
(* ResponseWriter *)

(* headers: the header map; sentHeaders: the header maps that
   writeStatusAndHeaders put on the connection, one per call of it *)
NewResponseWriter ==
    [statusCode |-> 200, written |-> FALSE, conn |-> <<>>,
     headers |-> EmptyMap, sentHeaders |-> <<>>]

(* fault: the status is stored whether or not the head has gone out *)
Status_always(rw, statusCode) == [rw EXCEPT !.statusCode = statusCode]

Status(rw, statusCode) ==
    IF ~rw.written THEN [rw EXCEPT !.statusCode = statusCode] ELSE rw

SetHeader(rw, key, value) == [rw EXCEPT !.headers = MapPut(@, key, value)]

(* write: the status line and headers go out before the first body write *)
Send(rw, data) ==
    IF ~rw.written
    THEN [rw EXCEPT !.conn = @ \o <<<<"head", rw.statusCode>>, <<"body", data>>>>,
                    !.sentHeaders = Append(@, rw.headers),
                    !.written = TRUE]
    ELSE [rw EXCEPT !.conn = Append(@, <<"body", data>>)]

SendString(rw, s) == Send(rw, s)

----------------------------------------------------------------------------
(* Router *)

(* extractRouteParams: one routeParam per segment that starts with ":" *)
RECURSIVE ParamsFrom(_, _)
ParamsFrom(parts, i) ==
    IF i > Len(parts) THEN <<>>
    ELSE IF HasPrefix(parts[i], <<":">>)
         THEN <<[name |-> TrimPrefix(parts[i], <<":">>), value |-> <<>>,
                 position |-> i - 1]>> \o ParamsFrom(parts, i + 1)
         ELSE ParamsFrom(parts, i + 1)

extractRouteParams(path) == ParamsFrom(Split(path), 1)

NewRouter ==
    [routes |-> EmptyMap, routeParams |-> EmptyMap,
     middlewares |-> <<>>, pathMiddlewares |-> EmptyMap]

(* fault: the middleware of a path is also collected for the paths below it *)
middlwareCollection_prefix(rt, path) ==
    rt.middlewares \o
        (IF S_users \in DOMAIN rt.pathMiddlewares /\ HasPrefix(path, S_users)
         THEN rt.pathMiddlewares[S_users] ELSE <<>>) \o
        (IF path \in DOMAIN rt.pathMiddlewares /\ path # S_users
         THEN rt.pathMiddlewares[path] ELSE <<>>)

(* the middleware a registration at path collects: the router's, then the
   path's *)
middlwareCollection(rt, path) ==
    rt.middlewares \o
        (IF path \in DOMAIN rt.pathMiddlewares THEN rt.pathMiddlewares[path] ELSE <<>>)

(* fault: a (method, path) that is already registered keeps its handler *)
HandleRouter_keepFirst(rt, method, path, handler) ==
    LET wrapped == ChainMiddleware(handler, middlwareCollection(rt, path))
        table == IF method \in DOMAIN rt.routes THEN rt.routes[method] ELSE EmptyMap
    IN [rt EXCEPT !.routeParams = MapPut(@, path, extractRouteParams(path)),
                  !.routes = MapPut(@, method,
                      IF path \in DOMAIN table THEN table ELSE MapPut(table, path, wrapped))]

(* router.Handle, as a function of the router's state *)
HandleRouter(rt, method, path, handler) ==
    LET wrapped == ChainMiddleware(handler, middlwareCollection(rt, path))
        table == IF method \in DOMAIN rt.routes THEN rt.routes[method] ELSE EmptyMap
    IN [rt EXCEPT !.routeParams = MapPut(@, path, extractRouteParams(path)),
                  !.routes = MapPut(@, method, MapPut(table, path, wrapped))]

(* router.Use *)
UseRouter(rt, middleware) == [rt EXCEPT !.middlewares = Append(@, middleware)]

(* router.UsePath *)
UsePathRouter(rt, path, middleware) ==
    [rt EXCEPT !.pathMiddlewares =
        MapPut(@, path, Append(IF path \in DOMAIN @ THEN @[path] ELSE <<>>, middleware))]

----------------------------------------------------------------------------
(* Serving one request.  A dispatch context st carries the response
   writer, the request (handlers get a pointer to it), and three records of
   what happened: events, in execution order; invoked, one entry per
   terminal handler that ran, with what it saw; served, one entry per call
   of a Router's ServeHTTP, with the path it was given. *)

(* entry of router.ServeHTTP *)
EnterRouter(st, rid) ==
    [st EXCEPT !.served = Append(@, [router |-> rid, path |-> st.req.Path])]

(* panicking: a panic is unwinding the stack; collection and time: the
   rate limiter's table and time.Now().Unix() during the dispatch *)
NewContext(req) ==
    [rw |-> NewResponseWriter, req |-> req, events |-> <<>>, invoked |-> <<>>,
     served |-> <<>>, panicking |-> FALSE,
     collection |-> rateLimitCollection, time |-> now]

(* a terminal HandlerFunc: it reads the request and sends a body *)
RunHandlerFunc(h, rid, template, st) ==
    [st EXCEPT !.events = Append(@, <<h, "handler">>),
               !.invoked = Append(@, [handler |-> h, router |-> rid,
                                      template |-> template,
                                      path |-> st.req.Path,
                                      params |-> st.req.Params]),
               !.rw = Send(@, h)]

(* the code of each middleware layer before it calls next, outermost first *)
EnterLayers(st, layers) ==
    [st EXCEPT !.events = @ \o [i \in 1..Len(layers) |-> <<layers[i], "before">>]]

(* the code of each middleware layer after next returns, innermost first *)
LeaveLayers(st, layers) ==
    [st EXCEPT !.events =
        @ \o [i \in 1..Len(layers) |-> <<layers[Len(layers) + 1 - i], "after">>]]

(* responseWriter.JSON: the status, then the marshalled data as the body *)
JSON(rw, statusCode, data) ==
    Send(SetHeader(Status(rw, statusCode), "Content-Type", "application/json"), data)

(* a read of the Headers map: the zero value for a missing key *)
HeaderGet(req, key) ==
    IF key \in DOMAIN req.Headers THEN req.Headers[key] ELSE ""

(* Terminal handlers: H1 and H2 send a body; HPanic panics before it has
   written anything; HSendPanic sends a body and then panics *)
RunTerminal(h, rid, template, st) ==
    CASE h = "HPanic" ->
            [st EXCEPT !.events = Append(@, <<h, "panic">>), !.panicking = TRUE]
      [] h = "HSendPanic" ->
            [RunHandlerFunc(h, rid, template, st) EXCEPT
                !.events = Append(@, <<h, "panic">>), !.panicking = TRUE]
      [] OTHER -> RunHandlerFunc(h, rid, template, st)

(* The part of a middleware that runs before next.ServeHTTP: the context
   it leaves, and stop when it returns without calling next *)

(* fault: the 401 is written and next is called all the same *)
AuthenticationMiddleware_noReturn(st) ==
    IF HeaderGet(st.req, "Authorization") = ""
    THEN [stop |-> FALSE,
          st |-> [st EXCEPT !.events = Append(@, <<"Auth", "reject">>),
                            !.rw = JSON(Status(@, 401), 401, "unauthorized")]]
    ELSE [stop |-> FALSE, st |-> st]

AuthenticationMiddleware(st) ==
    IF HeaderGet(st.req, "Authorization") = ""
    THEN [stop |-> TRUE,
          st |-> [st EXCEPT !.events = Append(@, <<"Auth", "reject">>),
                            !.rw = JSON(Status(@, 401), 401, "unauthorized")]]
    ELSE [stop |-> FALSE, st |-> st]

RateLimitMiddleware(st) ==
    LET clientIP == st.req.ClientIP
        exists == clientIP \in DOMAIN st.collection
        currentTime == st.time
    IN IF exists
       THEN LET entry == st.collection[clientIP]
            IN IF currentTime - entry.Timestamp < 60
               THEN IF entry.Count >= RequestsPerMinute
                    THEN [stop |-> TRUE,
                          st |-> [st EXCEPT
                                    !.events = Append(@, <<"RateLimit", "reject">>),
                                    !.rw = Send(Status(@, 429), "Too Many Requests")]]
                    ELSE [stop |-> FALSE,
                          st |-> [st EXCEPT !.collection[clientIP].Count = @ + 1]]
               ELSE [stop |-> FALSE,
                     st |-> [st EXCEPT !.collection[clientIP] =
                                [Count |-> 1, Timestamp |-> currentTime]]]
       ELSE [stop |-> FALSE,
             st |-> [st EXCEPT !.collection =
                        MapPut(@, clientIP, [Count |-> 1, Timestamp |-> currentTime])]]

EnterMiddleware(m, st) ==
    CASE m = "Auth" -> AuthenticationMiddleware(st)
      [] m = "RateLimit" -> RateLimitMiddleware(st)
      [] m = "Recovery" -> [stop |-> FALSE, st |-> st]
      [] OTHER -> [stop |-> FALSE, st |-> EnterLayers(st, <<m>>)]

(* The part of a middleware that runs once next.ServeHTTP is done *)

(* fault: no deferred recover *)
Recover_none(st) == st

(* RecoveryMiddleware's deferred function *)
Recover(st) ==
    IF st.panicking
    THEN [st EXCEPT !.panicking = FALSE,
                    !.events = Append(@, <<"Recovery", "recovered">>),
                    !.rw = JSON(@, 500, "Internal Server Error")]
    ELSE st

(* a panic skips the code after next.ServeHTTP *)
LeaveMiddleware(m, st) ==
    CASE m = "Recovery" -> Recover(st)
      [] m \in {"Auth", "RateLimit"} -> st
      [] OTHER -> IF st.panicking THEN st ELSE LeaveLayers(st, <<m>>)

(* handler.ServeHTTP for a handler built by ChainMiddleware: layer i, then
   the layers inside it, then the terminal handler *)
RECURSIVE RunChain(_, _, _, _, _)
RunChain(handler, i, rid, template, st) ==
    IF i > Len(handler.layers) THEN RunTerminal(handler.base, rid, template, st)
    ELSE LET entered == EnterMiddleware(handler.layers[i], st)
         IN IF entered.stop THEN entered.st
            ELSE LeaveMiddleware(handler.layers[i],
                                 RunChain(handler, i + 1, rid, template, entered.st))

(* Variants of ServeHTTP with a fault, used to test the properties below *)

(* a template matches a path segment by segment, ":name" taking any
   non-empty segment *)
TemplateMatches(template, path) ==
    LET ts == Split(template)
        ps == Split(path)
    IN /\ Len(ts) = Len(ps)
       /\ \A i \in 1..Len(ts) :
            IF HasPrefix(ts[i], <<":">>) THEN ps[i] # <<>> ELSE ts[i] = ps[i]

(* fault: parameterized templates are tried before the exact lookup *)
ServeHTTP_paramFirst(rt, rid, st) ==
    LET table == IF st.req.Method \in DOMAIN rt.routes
                 THEN rt.routes[st.req.Method] ELSE EmptyMap
        dyn == {t \in DOMAIN table :
                    extractRouteParams(t) # <<>> /\ TemplateMatches(t, st.req.Path)}
        t == IF dyn # {} THEN CHOOSE x \in dyn : TRUE ELSE st.req.Path
    IN IF t \in DOMAIN table
       THEN LeaveLayers(RunHandlerFunc(table[t].base, rid, t,
                                       EnterLayers(st, table[t].layers)),
                        table[t].layers)
       ELSE [st EXCEPT !.rw = Send(Status(@, 404), "404 Not Found"),
                       !.events = Append(@, <<rid, "404">>)]

(* fault: Params is filled from the parameters of every registered template,
   not only the matched one *)
ServeHTTP_leak(rt, rid, st) ==
    LET names == UNION {{rt.routeParams[t][i].name : i \in 1..Len(rt.routeParams[t])} :
                            t \in DOMAIN rt.routeParams}
        st1 == [st EXCEPT !.req.Params = [nil |-> FALSE, m |-> [n \in names |-> <<>>]]]
    IN IF /\ st.req.Method \in DOMAIN rt.routes
          /\ st.req.Path \in DOMAIN rt.routes[st.req.Method]
       THEN LET handler == rt.routes[st.req.Method][st.req.Path]
            IN LeaveLayers(
                   RunHandlerFunc(handler.base, rid, st.req.Path,
                                  EnterLayers(st1, handler.layers)),
                   handler.layers)
       ELSE [st EXCEPT !.rw = Send(Status(@, 404), "404 Not Found"),
                       !.events = Append(@, <<rid, "404">>)]

(* fault: the 404 branch sends its body without setting the status *)
ServeHTTP_noStatus(rt, rid, st) ==
    IF /\ st.req.Method \in DOMAIN rt.routes
       /\ st.req.Path \in DOMAIN rt.routes[st.req.Method]
    THEN LET handler == rt.routes[st.req.Method][st.req.Path]
         IN LeaveLayers(
                RunHandlerFunc(handler.base, rid, st.req.Path,
                               EnterLayers(st, handler.layers)),
                handler.layers)
    ELSE [st EXCEPT !.rw = Send(@, "404 Not Found"),
                    !.events = Append(@, <<rid, "404">>)]

(* fault: the router's middleware list is applied when the request is
   served, not when the route is registered *)
ServeHTTP_lateBinding(rt, rid, st) ==
    IF /\ st.req.Method \in DOMAIN rt.routes
       /\ st.req.Path \in DOMAIN rt.routes[st.req.Method]
    THEN LET handler == ChainMiddleware(
                            HandlerFunc(rt.routes[st.req.Method][st.req.Path].base),
                            rt.middlewares)
         IN LeaveLayers(
                RunHandlerFunc(handler.base, rid, st.req.Path,
                               EnterLayers(st, handler.layers)),
                handler.layers)
    ELSE [st EXCEPT !.rw = Send(Status(@, 404), "404 Not Found"),
                    !.events = Append(@, <<rid, "404">>)]

(* router.ServeHTTP: exact lookup of (Method, Path), else 404 *)
ServeHTTP(rt, rid, st) ==
    IF /\ st.req.Method \in DOMAIN rt.routes
       /\ st.req.Path \in DOMAIN rt.routes[st.req.Method]
    THEN RunChain(rt.routes[st.req.Method][st.req.Path], 1, rid, st.req.Path, st)
    ELSE [st EXCEPT !.rw = Send(Status(@, 404), "404 Not Found"),
                    !.events = Append(@, <<rid, "404">>)]

----------------------------------------------------------------------------
(* Application dispatcher (Ghast) *)

New == [rootRouter |-> "root", routers |-> <<>>, middlewares |-> <<>>, server |-> "nil"]

(* Ghast.Route: one more routeGroup at the end of g.routers *)
RouteApp(gg, prefix, rid, middlewares) ==
    [gg EXCEPT !.routers =
        Append(@, [prefix |-> prefix, middlewares |-> middlewares, router |-> rid])]

(* Ghast.Use *)
UseApp(gg, middleware) == [gg EXCEPT !.middlewares = Append(@, middleware)]

(* a Router used as a Handler *)
RouterHandler(rid) == [layers |-> <<>>, base |-> rid]

(* a Router wrapped in middleware, serving a request *)
ServeWrappedRouter(handler, rts, st) ==
    LeaveLayers(ServeHTTP(rts[handler.base], handler.base,
                          EnterRouter(EnterLayers(st, handler.layers), handler.base)),
                handler.layers)

(* sort.Slice(prefixes, len(prefixes[i]) > len(prefixes[j])): longest first.
   Prefixes of equal length keep their order here; the scan below gives the
   same result for any order of them, because two prefixes of one path that
   have the same length are the same string. *)
RECURSIVE InsertPrefix(_, _)
InsertPrefix(p, sorted) ==
    IF sorted = <<>> THEN <<p>>
    ELSE IF Len(p) > Len(Head(sorted)) THEN <<p>> \o sorted
    ELSE <<Head(sorted)>> \o InsertPrefix(p, Tail(sorted))

(* fault: the prefixes are scanned in registration order *)
SortPrefixes_unsorted(prefixes) == prefixes

RECURSIVE SortPrefixes(_)
SortPrefixes(prefixes) ==
    IF prefixes = <<>> THEN <<>>
    ELSE InsertPrefix(prefixes[Len(prefixes)],
                      SortPrefixes(SubSeq(prefixes, 1, Len(prefixes) - 1)))

(* the index at which the test of handleRequest's scan reads req.Path
   (counted from 0, as Go does), or -1 when the evaluation, left to right
   with short-circuit, does not get to req.Path[len(prefix)] *)
BoundaryIndex(path, prefix) ==
    IF HasPrefix(path, prefix) /\ prefix # S_root /\ Len(path) # Len(prefix)
    THEN Len(prefix) ELSE -1

(* fault: a prefix matches wherever the path starts with it *)
PrefixMatches_noBoundary(path, prefix) == HasPrefix(path, prefix)

(* the test of handleRequest's scan, evaluated left to right as Go does *)
PrefixMatches(path, prefix) ==
    /\ HasPrefix(path, prefix)
    /\ \/ prefix = S_root
       \/ Len(path) = Len(prefix)
       \/ path[Len(prefix) + 1] = "/"

(* index of the first prefix of the sorted list that passes the test, or 0 *)
RECURSIVE FirstMatch(_, _, _)
FirstMatch(prefixes, path, i) ==
    IF i > Len(prefixes) THEN 0
    ELSE IF PrefixMatches(path, prefixes[i]) THEN i
    ELSE FirstMatch(prefixes, path, i + 1)

(* the first routeGroup of g.routers registered with the prefix *)
RECURSIVE GroupOfPrefix(_, _, _)
GroupOfPrefix(groups, prefix, i) ==
    IF groups[i].prefix = prefix THEN groups[i]
    ELSE GroupOfPrefix(groups, prefix, i + 1)

(* fault: an empty remainder is passed on as it is *)
StripPrefix_noCollapse(path, matchedPrefix) ==
    IF matchedPrefix # S_root THEN TrimPrefix(path, matchedPrefix) ELSE path

(* the path the matched router is given *)
StripPrefix(path, matchedPrefix) ==
    IF matchedPrefix # S_root
    THEN LET t == TrimPrefix(path, matchedPrefix)
         IN IF t = <<>> THEN S_root ELSE t
    ELSE path

(* fault: the stripped path is left on the request *)
RestorePath_none(st, originalPath) == st

(* what is done with the request's Path once the matched router returned *)
RestorePath(st, originalPath) == [st EXCEPT !.req.Path = originalPath]

(* the part of handleRequest run when a prefix matched *)
ServeMount(gg, rts, st, matchedPrefix) ==
    LET matchedRouter == GroupOfPrefix(gg.routers, matchedPrefix, 1).router
        originalPath == st.req.Path
        st1 == [st EXCEPT !.req.Path = StripPrefix(originalPath, matchedPrefix)]
        routerWithMiddleware ==
            ChainMiddleware(RouterHandler(matchedRouter), gg.middlewares)
    IN RestorePath(ServeWrappedRouter(routerWithMiddleware, rts, st1), originalPath)

(* fault: the root router serves the request only when no prefix matched *)
handleRequest_elseFallback(gg, rts, st) ==
    LET prefixes == SortPrefixes([i \in 1..Len(gg.routers) |-> gg.routers[i].prefix])
        m == FirstMatch(prefixes, st.req.Path, 1)
    IN IF m # 0 THEN ServeMount(gg, rts, st, prefixes[m])
       ELSE ServeWrappedRouter(ChainMiddleware(RouterHandler(gg.rootRouter),
                                               gg.middlewares), rts, st)

(* Ghast.handleRequest *)
handleRequest(gg, rts, st) ==
    LET prefixes == SortPrefixes([i \in 1..Len(gg.routers) |-> gg.routers[i].prefix])
        m == FirstMatch(prefixes, st.req.Path, 1)
        afterMount == IF m # 0 THEN ServeMount(gg, rts, st, prefixes[m]) ELSE st
    IN ServeWrappedRouter(ChainMiddleware(RouterHandler(gg.rootRouter), gg.middlewares),
                          rts, afterMount)

----------------------------------------------------------------------------
(* Inputs of the actions *)

Templates == {S_users_me, S_users_id, S_user_posts}
RouterPaths == {S_users_me, S_users_42, S_users_id, S_users_456_posts_789, S_nonexistent}
MwTemplates == {S_users_me, S_users_id}
MwPaths == {S_users_me, S_users_id, S_nonexistent}
AppTemplates == {S_stats}
Mounts == {<<S_api, "api">>, <<S_api_admin, "admin">>, <<S_api, "admin">>, <<S_root, "api">>}
AppPaths == {S_api_admin_stats, S_api_stats, S_api, S_apix, S_stats}

(* last: the most recent dispatch, with the registration state it ran on
   (routers, g, calls), the request as it came in (req) and the outcome (st) *)
NoDispatch == [kind |-> "none"]

(* writer before NewResponseWriter; inflight with no request being handled *)
NoWriter == [exists |-> FALSE]
NoRequests == [reqs |-> EmptyMap, saved |-> EmptyMap]

(* an accepted connection: open, nothing sent on it yet.  arrived: what the
   client has sent, in order; read: how many of these the server has read;
   handled: the positions in arrived of the requests dispatched, in order;
   closedBy: which return of handleConnection closed the connection *)
NewConnection ==
    [open |-> TRUE, arrived |-> <<>>, read |-> 0, handled |-> <<>>, closedBy |-> "none"]

(* reg before any chained registration; hb before NewHandlerBuilder *)
NoRegistration == [kind |-> "none"]
NoBuilder == [exists |-> FALSE, handler |-> [layers |-> <<>>, base |-> "none"],
              uses |-> <<>>]

----------------------------------------------------------------------------
(* State and actions *)

Init ==
    /\ routers = [r \in RouterIds |-> NewRouter]
    /\ g = New
    /\ last = NoDispatch
    /\ prev = <<>>
    /\ calls = EmptyMap
    /\ ops = [handle |-> 0, use |-> 0, route |-> 0, appuse |-> 0, chain |-> 0,
              usepath |-> 0, requests |-> 0, ticks |-> 0]
    /\ reg = NoRegistration
    /\ hb = NoBuilder
    /\ rateLimitCollection = EmptyMap
    /\ now = 0
    /\ serving = TRUE
    /\ writer = NoWriter
    /\ inflight = NoRequests
    /\ connection = NewConnection

(* calls: for each (router, method, path), the Handle calls made with it,
   in order: the handler passed, and the router's middleware list and
   path middleware as they were then *)
CallsOf(c, key) == IF key \in DOMAIN c THEN c[key] ELSE <<>>

(* what the handlers of the dispatch before this one saw *)
Invoked(d) == IF d.kind = "none" THEN <<>> ELSE d.st.invoked

(* router.Handle(method, path, HandlerFunc(h)) on router r *)
Handle(r, method, path, h) ==
    /\ ops.handle < MaxHandle
    /\ routers' = [routers EXCEPT ![r] = HandleRouter(@, method, path, HandlerFunc(h))]
    /\ calls' = MapPut(calls, <<r, method, path>>,
                       Append(CallsOf(calls, <<r, method, path>>),
                              [handler |-> h, middlewares |-> routers[r].middlewares,
                               pathMiddlewares |-> routers[r].pathMiddlewares]))
    /\ ops' = [ops EXCEPT !.handle = @ + 1]
    /\ UNCHANGED <<g, last, prev>>
    /\ UNCHANGED others

(* router.Use(m) on router r *)
Use(r, m) ==
    /\ ops.use < MaxUse
    /\ routers' = [routers EXCEPT ![r] = UseRouter(@, m)]
    /\ ops' = [ops EXCEPT !.use = @ + 1]
    /\ UNCHANGED <<g, last, prev, calls>>
    /\ UNCHANGED others

(* g.Route(prefix, router r, middlewares...) *)
Route(prefix, r, middlewares) ==
    /\ ops.route < MaxRoute
    /\ g' = RouteApp(g, prefix, r, middlewares)
    /\ ops' = [ops EXCEPT !.route = @ + 1]
    /\ UNCHANGED <<routers, last, prev, calls>>
    /\ UNCHANGED others

(* g.Use(m) *)
AppUse(m) ==
    /\ ops.appuse < MaxAppUse
    /\ g' = UseApp(g, m)
    /\ ops' = [ops EXCEPT !.appuse = @ + 1]
    /\ UNCHANGED <<routers, last, prev, calls>>
    /\ UNCHANGED others

(* g.Listen: the server is created and accepts connections; the caller
   stays in the accept loop *)
Listen ==
    /\ g.server = "nil"
    /\ g' = [g EXCEPT !.server = "listening"]
    /\ UNCHANGED <<routers, last, prev, calls, ops>>
    /\ UNCHANGED others

(* fault: the lookup makes the table of a method that has none *)
RouterAfterServe_alloc(rt, method, path) ==
    IF method \in DOMAIN rt.routes THEN rt
    ELSE [rt EXCEPT !.routes = MapPut(@, method, EmptyMap)]

(* the router's state once router.ServeHTTP has returned: r.routes[req.Method]
   and r.routes[req.Method][req.Path] are read, nothing is assigned *)
RouterAfterServe(rt, method, path) == rt

(* the routers once each ServeHTTP call of a dispatch has returned *)
RECURSIVE RoutersAfter(_, _, _, _)
RoutersAfter(rts, served, method, i) ==
    IF i > Len(served) THEN rts
    ELSE RoutersAfter([rts EXCEPT ![served[i].router] =
                           RouterAfterServe(@, method, served[i].path)],
                      served, method, i + 1)

(* g once handleRequest has returned: the prefixes are copied to a slice of
   the call and sorted there; g.routers and g.middlewares are only read *)
GhastAfterRequest(gg) == gg

(* router.ServeHTTP(rw, req) on router r *)
RouterServe(r, req) ==
    LET st == ServeHTTP(routers[r], r, EnterRouter(NewContext(req), r))
    IN /\ last' = [kind |-> "router", router |-> r, req |-> req,
                   routers |-> routers, g |-> g, calls |-> calls, st |-> st]
       /\ prev' = Invoked(last)
       /\ routers' = RoutersAfter(routers, last'.st.served, req.Method, 1)
       /\ UNCHANGED <<g, calls, ops>>
       /\ UNCHANGED others

(* fault: the routeGroup of the Route call noted in reg holds a copy of the
   Router made by that call, without the routes registered afterwards *)
RoutersSeen_copied(rts, noted) ==
    IF noted.kind = "route"
    THEN [rts EXCEPT ![noted.router] = noted.routers[noted.router]]
    ELSE rts

(* the Routers that handleRequest reaches through g.rootRouter and the
   routeGroups: routeGroup.router is an interface value holding the pointer
   to the Router, so they are the Routers as they are at the dispatch *)
RoutersSeen(rts, noted) == rts

(* fault: the chain around a mounted Router is built by the Route call noted
   in reg, from the middleware g had then *)
GhastSeen_bound(gg, noted) ==
    IF noted.kind = "route"
    THEN [gg EXCEPT !.middlewares = noted.g.middlewares]
    ELSE gg

(* the dispatcher that handleRequest reads: a method on *Ghast, it reads
   g.routers and g.middlewares when it is called *)
GhastSeen(gg, noted) == gg

(* server.handleConnection hands a parsed request to g.handleRequest *)
AppRequest(req) ==
    /\ g.server = "listening"
    /\ LET st == handleRequest(GhastSeen(g, reg), RoutersSeen(routers, reg), NewContext(req))
       IN /\ last' = [kind |-> "app", router |-> g.rootRouter, req |-> req,
                      routers |-> routers, g |-> g, calls |-> calls, st |-> st]
          /\ routers' = RoutersAfter(routers, last'.st.served, req.Method, 1)
    /\ g' = GhastAfterRequest(g)
    /\ prev' = Invoked(last)
    /\ UNCHANGED <<calls, ops>>
    /\ UNCHANGED others

(* one Router: registration and dispatch *)
Next ==
    \/ \E method \in Methods, path \in Templates, h \in Handlers :
           Handle("api", method, path, h)
    \/ \E method \in Methods, path \in RouterPaths, params \in {NilParams, MakeParams} :
           RouterServe("api", Request(method, path, params))

Spec == Init /\ [][Next]_vars

(* one Router with router-level middleware *)
NextMw ==
    \/ \E m \in Middlewares : Use("api", m)
    \/ \E path \in MwTemplates, h \in Handlers : Handle("api", "GET", path, h)
    \/ \E path \in MwPaths : RouterServe("api", Request("GET", path, MakeParams))

SpecMw == Init /\ [][NextMw]_vars

(* the application: root router, mounts and global middleware; set up by
   the goroutine that then calls Listen *)
NextApp ==
    \/ g.server = "nil" /\ \E r \in RouterIds, path \in AppTemplates :
           Handle(r, "GET", path, "H1")
    \/ g.server = "nil" /\ \E mount \in Mounts : Route(mount[1], mount[2], <<>>)
    \/ g.server = "nil" /\ \E m \in Middlewares : AppUse(m)
    \/ Listen
    \/ \E path \in AppPaths : AppRequest(Request("GET", path, NilParams))

SpecApp == Init /\ [][NextApp]_vars

(* middleware named after the scope it is registered in *)
GlobalMiddlewares == {"G1", "G2"}
MountMiddlewares == {<<>>, <<"MM1">>, <<"MM1", "MM2">>}
RouteMiddlewares == {"R1"}
LayerPaths == {S_api_stats, S_api, S_stats}

(* the application with middleware in the three scopes: g.Use, the
   middlewares argument of g.Route, and router.Use of the mounted router *)
NextLayers ==
    \/ g.server = "nil" /\ Handle("api", "GET", S_stats, "H1")
    \/ g.server = "nil" /\ \E m \in RouteMiddlewares : Use("api", m)
    \/ g.server = "nil" /\ \E middlewares \in MountMiddlewares :
           Route(S_api, "api", middlewares)
    \/ g.server = "nil" /\ \E m \in GlobalMiddlewares : AppUse(m)
    \/ Listen
    \/ \E path \in LayerPaths : AppRequest(Request("GET", path, NilParams))

SpecLayers == Init /\ [][NextLayers]_vars

----------------------------------------------------------------------------
(* HandlerBuilder.  uses is not a field of the struct: it lists the
   arguments of the Use calls made on the builder, in call order. *)

NewHandlerBuilder(handler) == [exists |-> TRUE, handler |-> handler, uses |-> <<>>]

(* hb.Use: hb.handler = middleware(hb.handler) *)
UseBuilder(b, middleware) ==
    [b EXCEPT !.handler = ApplyMiddleware(middleware, @),
              !.uses = Append(@, middleware)]

Build(b) == b.handler

(* a handler that is not a Router, wrapped or not, serving a request *)
ServeHandler(handler, st) ==
    LeaveLayers(RunHandlerFunc(handler.base, "none", st.req.Path,
                               EnterLayers(st, handler.layers)),
                handler.layers)

BuilderNew(h) ==
    /\ hb' = NewHandlerBuilder(HandlerFunc(h))
    /\ UNCHANGED <<routers, g, last, prev, calls, ops>>
    /\ UNCHANGED <<reg, rateLimitCollection, now, serving>>
    /\ UNCHANGED <<writer, inflight, connection>>

BuilderUse(m) ==
    /\ hb.exists
    /\ Len(hb.uses) < MaxBuilderUse
    /\ hb' = UseBuilder(hb, m)
    /\ UNCHANGED <<routers, g, last, prev, calls, ops>>
    /\ UNCHANGED <<reg, rateLimitCollection, now, serving>>
    /\ UNCHANGED <<writer, inflight, connection>>

(* Build() and a call of the built handler's ServeHTTP *)
BuilderServe(req) ==
    /\ hb.exists
    /\ last' = [kind |-> "built", router |-> "none", req |-> req,
                routers |-> routers, g |-> g, calls |-> calls, hb |-> hb,
                st |-> ServeHandler(Build(hb), NewContext(req))]
    /\ prev' = Invoked(last)
    /\ UNCHANGED <<routers, g, calls, ops>>
    /\ UNCHANGED others

BuilderPaths == {S_root, S_stats}

NextBuilder ==
    \/ \E h \in Handlers : BuilderNew(h)
    \/ \E m \in Middlewares : BuilderUse(m)
    \/ \E path \in BuilderPaths : BuilderServe(Request("GET", path, NilParams))

SpecBuilder == Init /\ [][NextBuilder]_vars

BoundaryMounts == {S_use, S_users, S_root} \X {"api", "admin"}
BoundaryPaths == {S_use, S_users, S_users_42, S_stats}

(* mounts whose prefixes are prefixes of one another as strings *)
NextBoundary ==
    \/ g.server = "nil" /\ \E r \in {"api", "admin"} : Handle(r, "GET", S_root, "H1")
    \/ g.server = "nil" /\ \E mount \in BoundaryMounts : Route(mount[1], mount[2], <<>>)
    \/ Listen
    \/ \E path \in BoundaryPaths : AppRequest(Request("GET", path, NilParams))

SpecBoundary == Init /\ [][NextBoundary]_vars

----------------------------------------------------------------------------
(* The verb methods of the Router *)

GetRouter(rt, path, handler) == HandleRouter(rt, "GET", path, handler)

PostRouter(rt, path, handler) == HandleRouter(rt, "POST", path, handler)

(* fault: Put registers under POST *)
PutRouter_asPost(rt, path, handler) == HandleRouter(rt, "POST", path, handler)

PutRouter(rt, path, handler) == HandleRouter(rt, "PUT", path, handler)

DeleteRouter(rt, path, handler) == HandleRouter(rt, "DELETE", path, handler)

PatchRouter(rt, path, handler) == HandleRouter(rt, "PATCH", path, handler)

HeadRouter(rt, path, handler) == HandleRouter(rt, "HEAD", path, handler)

OptionsRouter(rt, path, handler) == HandleRouter(rt, "OPTIONS", path, handler)

Verbs == {"Get", "Post", "Put", "Delete", "Patch", "Head", "Options"}
AllMethods == {"GET", "POST", "PUT", "DELETE", "HEAD", "OPTIONS", "PATCH"}

(* a call of the verb method with the given name *)
CallVerb(rt, name, path, handler) ==
    CASE name = "Get" -> GetRouter(rt, path, handler)
      [] name = "Post" -> PostRouter(rt, path, handler)
      [] name = "Put" -> PutRouter(rt, path, handler)
      [] name = "Delete" -> DeleteRouter(rt, path, handler)
      [] name = "Patch" -> PatchRouter(rt, path, handler)
      [] name = "Head" -> HeadRouter(rt, path, handler)
      [] name = "Options" -> OptionsRouter(rt, path, handler)

(* router r's verb method name called with (path, HandlerFunc(h)); reg keeps
   the call with the router before and after it, calls keeps it under the
   name of the method called *)
Verb(r, name, path, h) ==
    /\ ops.handle < MaxHandle
    /\ routers' = [routers EXCEPT ![r] = CallVerb(@, name, path, HandlerFunc(h))]
    /\ calls' = MapPut(calls, <<r, name, path>>,
                       Append(CallsOf(calls, <<r, name, path>>),
                              [handler |-> h, middlewares |-> routers[r].middlewares]))
    /\ reg' = [kind |-> "verb", router |-> r, name |-> name, path |-> path,
               handler |-> h, before |-> routers[r], after |-> routers'[r]]
    /\ ops' = [ops EXCEPT !.handle = @ + 1]
    /\ UNCHANGED <<g, last, prev, hb, rateLimitCollection, now, serving>>
    /\ UNCHANGED <<writer, inflight, connection>>

NextVerb ==
    \/ \E name \in Verbs, h \in Handlers : Verb("api", name, S_users, h)
    \/ \E method \in AllMethods :
           RouterServe("api", Request(method, S_users, MakeParams))

SpecVerb == Init /\ [][NextVerb]_vars

----------------------------------------------------------------------------
(* Chained registration.  An object is a Router (by its id) or the
   application ("app"); a call is a record with the method's name and its
   arguments; a method call has an effect on the state and returns an
   object, on which the next call of the chain is made. *)

(* the effect of a call on object recv.  The application's verb methods
   pass the call on to the root router. *)
Effect(state, recv, call) ==
    IF recv = "app"
    THEN CASE call.name = "Route" ->
                [state EXCEPT !.g = RouteApp(@, call.prefix, call.router, <<>>)]
           [] call.name = "Use" ->
                [state EXCEPT !.g = UseApp(@, call.middleware)]
           [] call.name \in Verbs ->
                [state EXCEPT !.routers[state.g.rootRouter] =
                    CallVerb(@, call.name, call.path, HandlerFunc(call.handler))]
           [] OTHER -> state
    ELSE CASE call.name = "Use" ->
                [state EXCEPT !.routers[recv] = UseRouter(@, call.middleware)]
           [] call.name = "UsePath" ->
                [state EXCEPT !.routers[recv] =
                    UsePathRouter(@, call.path, call.middleware)]
           [] call.name \in Verbs ->
                [state EXCEPT !.routers[recv] =
                    CallVerb(@, call.name, call.path, HandlerFunc(call.handler))]
           [] OTHER -> state

(* fault: the application's methods return what the root router returned *)
Returned_rootRouter(state, recv, call) ==
    IF recv = "app" THEN state.g.rootRouter ELSE recv

(* the value a registration method returns: "return r", "return g" *)
Returned(state, recv, call) == recv

(* recv.c1(...).c2(...) ... : each call is made on what the one before it
   returned *)
RECURSIVE Chained(_, _, _)
Chained(state, recv, cs) ==
    IF cs = <<>> THEN state
    ELSE Chained(Effect(state, recv, Head(cs)),
                 Returned(state, recv, Head(cs)), Tail(cs))

RouterCalls ==
    {[name |-> "Get", path |-> S_users, handler |-> "H1"],
     [name |-> "Post", path |-> S_users, handler |-> "H1"],
     [name |-> "Use", middleware |-> "M1"],
     [name |-> "UsePath", path |-> S_stats, middleware |-> "M1"]}

AppCalls ==
    {[name |-> "Get", path |-> S_users, handler |-> "H1"],
     [name |-> "Use", middleware |-> "M1"],
     [name |-> "Route", prefix |-> S_api, router |-> "api"]}

(* one statement of chained registration calls on recv *)
Chain(recv, cs) ==
    /\ ops.chain < MaxChain
    /\ LET after == Chained([routers |-> routers, g |-> g], recv, cs)
       IN /\ routers' = after.routers
          /\ g' = after.g
          /\ reg' = [kind |-> "chain", recv |-> recv, calls |-> cs,
                     before |-> [routers |-> routers, g |-> g], after |-> after]
    /\ ops' = [ops EXCEPT !.chain = @ + 1]
    /\ UNCHANGED <<last, prev, calls, hb, rateLimitCollection, now, serving>>
    /\ UNCHANGED <<writer, inflight, connection>>

NextChain ==
    \/ \E c1 \in RouterCalls, c2 \in RouterCalls : Chain("api", <<c1, c2>>)
    \/ \E c1 \in AppCalls, c2 \in AppCalls : Chain("app", <<c1, c2>>)

SpecChain == Init /\ [][NextChain]_vars

(* router.UsePath(path, m) on router r *)
UsePath(r, path, m) ==
    /\ ops.usepath < MaxUsePath
    /\ routers' = [routers EXCEPT ![r] = UsePathRouter(@, path, m)]
    /\ ops' = [ops EXCEPT !.usepath = @ + 1]
    /\ UNCHANGED <<g, last, prev, calls>>
    /\ UNCHANGED others

PathMiddlewares == {"P1", "P2"}
PathTemplates == {S_users, S_users_me}

(* one Router with path-specific middleware *)
NextPath ==
    \/ \E path \in PathTemplates, m \in PathMiddlewares : UsePath("api", path, m)
    \/ \E path \in PathTemplates : Handle("api", "GET", path, "H1")
    \/ \E path \in PathTemplates : RouterServe("api", Request("GET", path, MakeParams))

SpecPath == Init /\ [][NextPath]_vars

AuthHeaders ==
    {EmptyMap, "Authorization" :> "Bearer token123", "Authorization" :> ""}

(* one Router with the authentication middleware among its middleware *)
NextAuth ==
    \/ \E m \in {"M1", "Auth"} : Use("api", m)
    \/ UsePath("api", S_admin_stats, "Auth")
    \/ Handle("api", "GET", S_admin_stats, "H1")
    \/ \E headers \in AuthHeaders :
           RouterServe("api", RequestFrom("GET", S_admin_stats, headers, "ip1"))

SpecAuth == Init /\ [][NextAuth]_vars

----------------------------------------------------------------------------
(* The rate limiter around a handler *)

ClientIPs == {"ip1", "ip2"}
Ticks == {1, 59}

(* the requests served through the rate limiter so far: the client, the
   second of the request and whether it got to the next handler *)
LogOf(d) == IF d.kind = "limited" THEN d.log ELSE <<>>

(* time passes *)
Tick(d) ==
    /\ ops.ticks < MaxTicks
    /\ now' = now + d
    /\ ops' = [ops EXCEPT !.ticks = @ + 1]
    /\ UNCHANGED <<routers, g, last, prev, calls, reg, hb, rateLimitCollection, serving>>
    /\ UNCHANGED <<writer, inflight, connection>>

(* a request of clientIP to RateLimitMiddleware(options)(HandlerFunc(H1)) *)
RateServe(clientIP) ==
    /\ ops.requests < MaxRequests
    /\ LET handler == ChainMiddleware(HandlerFunc("H1"), <<"RateLimit">>)
           req == RequestFrom("GET", S_stats, EmptyMap, clientIP)
           st == RunChain(handler, 1, "none", req.Path, NewContext(req))
       IN /\ last' = [kind |-> "limited", router |-> "none", req |-> req,
                      routers |-> routers, g |-> g, calls |-> calls, st |-> st,
                      log |-> Append(LogOf(last),
                                     [ip |-> clientIP, time |-> now,
                                      reached |-> st.invoked # <<>>])]
          /\ rateLimitCollection' = st.collection
    /\ prev' = Invoked(last)
    /\ ops' = [ops EXCEPT !.requests = @ + 1]
    /\ UNCHANGED <<routers, g, calls, reg, hb, now, serving>>
    /\ UNCHANGED <<writer, inflight, connection>>

NextRate ==
    \/ \E d \in Ticks : Tick(d)
    \/ \E clientIP \in ClientIPs : RateServe(clientIP)

SpecRate == Init /\ [][NextRate]_vars

----------------------------------------------------------------------------
(* The serving loop of a connection, over handlers that may panic *)

RecoveryChains == {<<>>, <<"Recovery">>, <<"M1", "Recovery">>, <<"Recovery", "M1">>}
ConnHandlers == {"H1", "H2", "HPanic", "HSendPanic"}
ConnPaths == {S_root, S_stats}

(* one turn of handleConnection's loop: the request goes to
   ChainMiddleware(HandlerFunc(h), middlewares); a panic that nothing
   recovers ends the goroutine *)
ConnServe(middlewares, h, req) ==
    /\ serving
    /\ LET handler == ChainMiddleware(HandlerFunc(h), middlewares)
           st == RunChain(handler, 1, "none", req.Path, NewContext(req))
       IN /\ last' = [kind |-> "conn", router |-> "none", req |-> req,
                      routers |-> routers, g |-> g, calls |-> calls, st |-> st,
                      middlewares |-> middlewares, handler |-> h]
          /\ serving' = ~st.panicking
    /\ prev' = Invoked(last)
    /\ UNCHANGED <<routers, g, calls, ops, reg, hb, rateLimitCollection, now>>
    /\ UNCHANGED <<writer, inflight, connection>>

NextRecover ==
    \E middlewares \in RecoveryChains, h \in ConnHandlers, path \in ConnPaths :
        ConnServe(middlewares, h, RequestFrom("GET", path, EmptyMap, "ip1"))

SpecRecover == Init /\ [][NextRecover]_vars

----------------------------------------------------------------------------
(* A ResponseWriter and the calls made on it.  writer keeps, beside the
   ResponseWriter, the last call made on it, the ResponseWriter as it was
   before that call, and the number of calls. *)

WriterCalls ==
    {[name |-> "Status", statusCode |-> 404], [name |-> "Status", statusCode |-> 500],
     [name |-> "SetHeader", key |-> "X-Request-ID", value |-> "1"],
     [name |-> "SetHeader", key |-> "Content-Type", value |-> "text/plain"],
     [name |-> "Send", data |-> "a"], [name |-> "SendString", data |-> "b"],
     [name |-> "JSON", statusCode |-> 201, data |-> "j"]}

CallWriter(rw, call) ==
    CASE call.name = "Status" -> Status(rw, call.statusCode)
      [] call.name = "SetHeader" -> SetHeader(rw, call.key, call.value)
      [] call.name = "Send" -> Send(rw, call.data)
      [] call.name = "SendString" -> SendString(rw, call.data)
      [] call.name = "JSON" -> JSON(rw, call.statusCode, call.data)

(* NewResponseWriter(conn) on a fresh connection *)
WriterNew ==
    /\ writer' = [exists |-> TRUE, rw |-> NewResponseWriter, n |-> 0,
                  call |-> [name |-> "none"], before |-> NewResponseWriter]
    /\ UNCHANGED <<routers, g, last, prev, calls, ops>>
    /\ UNCHANGED <<reg, hb, rateLimitCollection, now, serving, inflight, connection>>

WriterCall(call) ==
    /\ writer.exists
    /\ writer.n < MaxWriterCalls
    /\ writer' = [exists |-> TRUE, rw |-> CallWriter(writer.rw, call), n |-> writer.n + 1,
                  call |-> call, before |-> writer.rw]
    /\ UNCHANGED <<routers, g, last, prev, calls, ops>>
    /\ UNCHANGED <<reg, hb, rateLimitCollection, now, serving, inflight, connection>>

NextWriter ==
    \/ WriterNew
    \/ \E call \in WriterCalls : WriterCall(call)

SpecWriter == Init /\ [][NextWriter]_vars

----------------------------------------------------------------------------
(* One Router with parameterized templates that overlap: /users/:id and
   /users/:name accept the same paths *)

DynTemplates == {S_users_id, S_users_name}
DynPaths == {S_users_42, S_users, S_users_slash, S_users_1_posts, S_users_id}

NextDyn ==
    \/ \E method \in Methods, path \in DynTemplates, h \in Handlers :
           Handle("api", method, path, h)
    \/ \E method \in Methods, path \in DynPaths :
           RouterServe("api", Request(method, path, MakeParams))

SpecDyn == Init /\ [][NextDyn]_vars

(* one Router with router-level middleware and middleware for a path *)
RoutePaths == {S_users, S_users_me}

NextRoute ==
    \/ Use("api", "M1")
    \/ \E m \in PathMiddlewares : UsePath("api", S_users, m)
    \/ Handle("api", "GET", S_users, "H1")
    \/ \E path \in RoutePaths : RouterServe("api", Request("GET", path, MakeParams))

SpecRoute == Init /\ [][NextRoute]_vars

----------------------------------------------------------------------------
(* Requests handled concurrently.  server.Listen starts one goroutine per
   connection, and each runs handleRequest on the Request it parsed; the
   steps of handleRequest of different requests interleave.  inflight.reqs
   maps a request to where its handleRequest call is (pc), the request as
   it came in (req), the call's matchedPrefix and matchedRouter, and its
   dispatch context st (st.req is the Request the handlers are given).
   inflight.saved holds the originalPath variables, one slot per call. *)

RequestIds == 1..MaxInflight
ConcPaths == {S_api_stats, S_api, S_stats}

(* fault: originalPath is one variable shared by all calls *)
SlotOf_shared(id) == 0

(* originalPath is a local variable of the handleRequest call *)
SlotOf(id) == id

OthersButInflight == <<reg, hb, rateLimitCollection, now, serving, writer, connection>>

(* a connection's goroutine hands its parsed request to handleRequest *)
Begin(id, req) ==
    /\ g.server = "listening"
    /\ id \notin DOMAIN inflight.reqs
    /\ inflight' = [inflight EXCEPT !.reqs =
           MapPut(@, id, [pc |-> "scan", req |-> req, matchedPrefix |-> <<>>,
                          matchedRouter |-> "nil", st |-> NewContext(req)])]
    /\ UNCHANGED <<routers, g, last, prev, calls, ops>>
    /\ UNCHANGED OthersButInflight

(* the scan of the sorted prefixes *)
Match(id) ==
    /\ id \in DOMAIN inflight.reqs
    /\ inflight.reqs[id].pc = "scan"
    /\ LET prefixes == SortPrefixes([i \in 1..Len(g.routers) |-> g.routers[i].prefix])
           m == FirstMatch(prefixes, inflight.reqs[id].st.req.Path, 1)
       IN inflight' = [inflight EXCEPT !.reqs[id] =
              IF m # 0
              THEN [@ EXCEPT !.pc = "matched", !.matchedPrefix = prefixes[m],
                             !.matchedRouter = GroupOfPrefix(g.routers, prefixes[m], 1).router]
              ELSE [@ EXCEPT !.pc = "root"]]
    /\ UNCHANGED <<routers, g, last, prev, calls, ops>>
    /\ UNCHANGED OthersButInflight

(* originalPath := req.Path, and the prefix is stripped from req.Path *)
Strip(id) ==
    /\ id \in DOMAIN inflight.reqs
    /\ inflight.reqs[id].pc = "matched"
    /\ inflight' = [inflight EXCEPT
           !.saved = MapPut(@, SlotOf(id), inflight.reqs[id].st.req.Path),
           !.reqs[id].st.req.Path = StripPrefix(@, inflight.reqs[id].matchedPrefix),
           !.reqs[id].pc = "stripped"]
    /\ UNCHANGED <<routers, g, last, prev, calls, ops>>
    /\ UNCHANGED OthersButInflight

(* the matched router, inside the global middleware, serves the request *)
ServeMounted(id) ==
    /\ id \in DOMAIN inflight.reqs
    /\ inflight.reqs[id].pc = "stripped"
    /\ inflight' = [inflight EXCEPT
           !.reqs[id].st = ServeWrappedRouter(
               ChainMiddleware(RouterHandler(inflight.reqs[id].matchedRouter),
                               g.middlewares), routers, @),
           !.reqs[id].pc = "served"]
    /\ UNCHANGED <<routers, g, last, prev, calls, ops>>
    /\ UNCHANGED OthersButInflight

(* req.Path = originalPath *)
Restore(id) ==
    /\ id \in DOMAIN inflight.reqs
    /\ inflight.reqs[id].pc = "served"
    /\ inflight' = [inflight EXCEPT
           !.reqs[id].st = RestorePath(@, inflight.saved[SlotOf(id)]),
           !.reqs[id].pc = "root"]
    /\ UNCHANGED <<routers, g, last, prev, calls, ops>>
    /\ UNCHANGED OthersButInflight

(* the root router, inside the global middleware, serves the request *)
ServeRoot(id) ==
    /\ id \in DOMAIN inflight.reqs
    /\ inflight.reqs[id].pc = "root"
    /\ inflight' = [inflight EXCEPT
           !.reqs[id].st = ServeWrappedRouter(
               ChainMiddleware(RouterHandler(g.rootRouter), g.middlewares), routers, @),
           !.reqs[id].pc = "done"]
    /\ UNCHANGED <<routers, g, last, prev, calls, ops>>
    /\ UNCHANGED OthersButInflight

NextConc ==
    \/ g.server = "nil" /\ \E path \in {S_stats, S_root} : Handle("api", "GET", path, "H1")
    \/ g.server = "nil" /\ Route(S_api, "api", <<>>)
    \/ Listen
    \/ \E id \in RequestIds, path \in ConcPaths, params \in {NilParams, MakeParams} :
           Begin(id, Request("GET", path, params))
    \/ \E id \in RequestIds : Match(id)
    \/ \E id \in RequestIds : Strip(id)
    \/ \E id \in RequestIds : ServeMounted(id)
    \/ \E id \in RequestIds : Restore(id)
    \/ \E id \in RequestIds : ServeRoot(id)

SpecConc == Init /\ [][NextConc]_vars

----------------------------------------------------------------------------
(* Parsing a raw request.  Strings are sequences of characters; the
   functions of package strings are computed on them. *)

CRLF == <<"\r", "\n">>

(* strings.Index, counted from 1: where sep first occurs in s at or after
   position i, or 0 *)
RECURSIVE IndexFrom(_, _, _)
IndexFrom(s, sep, i) ==
    IF i + Len(sep) - 1 > Len(s) THEN 0
    ELSE IF SubSeq(s, i, i + Len(sep) - 1) = sep THEN i
    ELSE IndexFrom(s, sep, i + 1)

(* strings.Contains *)
Contains(s, sep) == IndexFrom(s, sep, 1) # 0

(* strings.ContainsAny *)
ContainsAny(s, chars) == \E i \in 1..Len(s) : s[i] \in chars

(* strings.HasSuffix *)
HasSuffix(s, p) == Len(p) <= Len(s) /\ SubSeq(s, Len(s) - Len(p) + 1, Len(s)) = p

(* strings.Split(s, sep), sep not empty *)
RECURSIVE SplitOn(_, _)
SplitOn(s, sep) ==
    LET i == IndexFrom(s, sep, 1)
    IN IF i = 0 THEN <<s>>
       ELSE <<SubSeq(s, 1, i - 1)>> \o SplitOn(SubSeq(s, i + Len(sep), Len(s)), sep)

(* strings.SplitN(s, sep, 2) *)
SplitN2(s, sep) ==
    LET i == IndexFrom(s, sep, 1)
    IN IF i = 0 THEN <<s>>
       ELSE <<SubSeq(s, 1, i - 1), SubSeq(s, i + Len(sep), Len(s))>>

LowerCase == <<"a","b","c","d","e","f","g","h","i","j","k","l","m",
               "n","o","p","q","r","s","t","u","v","w","x","y","z">>
UpperCase == <<"A","B","C","D","E","F","G","H","I","J","K","L","M",
               "N","O","P","Q","R","S","T","U","V","W","X","Y","Z">>

(* strings.ToUpper *)
ToUpper(s) ==
    [i \in 1..Len(s) |->
        IF \E k \in 1..26 : LowerCase[k] = s[i]
        THEN UpperCase[CHOOSE k \in 1..26 : LowerCase[k] = s[i]]
        ELSE s[i]]

(* the method constants *)
validMethods == {<<"G", "E", "T">>,
                 <<"P", "O", "S", "T">>,
                 <<"P", "U", "T">>,
                 <<"D", "E", "L", "E", "T", "E">>,
                 <<"H", "E", "A", "D">>,
                 <<"O", "P", "T", "I", "O", "N", "S">>,
                 <<"P", "A", "T", "C", "H">>}

NoRequest == "nil"

(* parseRequestLine *)
parseRequestLine(lines) ==
    LET parts == SplitOn(lines[1], <<" ">>)
    IN IF Len(parts) # 3 THEN [err |-> TRUE]
       ELSE IF ToUpper(parts[1]) \notin validMethods THEN [err |-> TRUE]
       ELSE [err |-> FALSE, method |-> parts[1], path |-> parts[2], version |-> parts[3]]

isValidHeaderName(name) ==
    /\ name # <<>>
    /\ ~ContainsAny(name, {" ", "\t", "\r", "\n"})
    /\ ~Contains(name, <<":">>)
    /\ ~HasPrefix(name, <<" ">>)
    /\ ~HasSuffix(name, <<" ">>)

isValidHeaderValue(value) == value # <<>> /\ ~ContainsAny(value, {"\r", "\n"})

(* parseHeaders: the lines up to the first empty one *)
RECURSIVE parseHeadersFrom(_, _, _)
parseHeadersFrom(lines, i, headers) ==
    IF i > Len(lines) \/ lines[i] = <<>> THEN [err |-> FALSE, headers |-> headers]
    ELSE LET parts == SplitN2(lines[i], <<":", " ">>)
         IN IF Len(parts) # 2 THEN [err |-> TRUE]
            ELSE IF ~isValidHeaderName(parts[1]) \/ ~isValidHeaderValue(parts[2])
                 THEN [err |-> TRUE]
            ELSE parseHeadersFrom(lines, i + 1, MapPut(headers, parts[1], parts[2]))

parseHeaders(lines) == parseHeadersFrom(lines, 1, EmptyMap)

(* parseParams *)
RECURSIVE parseParamsFrom(_, _, _)
parseParamsFrom(pairs, i, params) ==
    IF i > Len(pairs) THEN [err |-> FALSE, params |-> params]
    ELSE LET kv == SplitN2(pairs[i], <<"=">>)
         IN IF Len(kv) # 2 THEN [err |-> TRUE]
            ELSE parseParamsFrom(pairs, i + 1, MapPut(params, kv[1], kv[2]))

parseParams(paramString) == parseParamsFrom(SplitOn(paramString, <<"&">>), 1, EmptyMap)

(* ParseRequest: an error and no Request, or the Request *)
ParseRequest(rawRequest) ==
    LET lines == SplitOn(rawRequest, CRLF)
        rl == parseRequestLine(lines)
        hs == parseHeaders(Tail(lines))
        hasQuery == Contains(rl.path, <<"?">>)
        qs == parseParams(SplitOn(rl.path, <<"?">>)[2])
    IN IF rl.err THEN [err |-> TRUE, req |-> NoRequest]
       ELSE IF hs.err THEN [err |-> TRUE, req |-> NoRequest]
       ELSE IF hasQuery /\ qs.err THEN [err |-> TRUE, req |-> NoRequest]
       ELSE [err |-> FALSE,
             req |-> [Method |-> rl.method,
                      Path |-> IF hasQuery THEN SplitOn(rl.path, <<"?">>)[1] ELSE rl.path,
                      Version |-> rl.version,
                      Headers |-> hs.headers,
                      Queries |-> IF hasQuery THEN [nil |-> FALSE, m |-> qs.params]
                                  ELSE [nil |-> TRUE, m |-> EmptyMap],
                      Params |-> NilParams,
                      Body |-> <<>>]]

(* the raw requests handed to ParseRequest: a method, a target, a version
   or none, and header lines *)
RawMethods == validMethods \cup {<<"g", "e", "t">>, <<"P", "o", "s", "t">>, <<"F", "O", "O">>}
RawTargets == {<<"/", "x">>,
               <<"/", "x", "?", "a", "=", "1">>,
               <<"/", "x", "?", "a", "=", "1", "&", "b", "=", "2">>,
               <<"/", "x", "?">>,
               <<"/", "x", "?", "a">>,
               <<"/", "x", " ", "y">>}
RawVersions == {<<" ", "H", "T", "T", "P", "/", "1", ".", "1">>, <<>>}
RawHeaders == {<<>>,
               <<"\r", "\n", "H", "o", "s", "t", ":", " ", "a">>,
               <<"\r", "\n", "b", "a", "d">>}

RawRequest(method, target, version, headers) ==
    method \o <<" ">> \o target \o version \o headers

(* ParseRequest(rawRequest) *)
Parse(rawRequest) ==
    /\ last' = [kind |-> "parsed", rawRequest |-> rawRequest,
                out |-> ParseRequest(rawRequest)]
    /\ UNCHANGED <<routers, g, prev, calls, ops>>
    /\ UNCHANGED others

NextParse ==
    \E method \in RawMethods, target \in RawTargets,
       version \in RawVersions, headers \in RawHeaders :
        Parse(RawRequest(method, target, version, headers))

SpecParse == Init /\ [][NextParse]_vars

----------------------------------------------------------------------------
(* Registration on a Router that is already mounted *)

(* g.Route(prefix, router r); reg keeps the Routers and g as they were at
   the call *)
RouteNoted(prefix, r) ==
    /\ ops.route < MaxRoute
    /\ g' = RouteApp(g, prefix, r, <<>>)
    /\ ops' = [ops EXCEPT !.route = @ + 1]
    /\ reg' = [kind |-> "route", router |-> r, prefix |-> prefix,
                routers |-> routers, g |-> g]
    /\ UNCHANGED <<routers, last, prev, calls>>
    /\ UNCHANGED <<hb, rateLimitCollection, now, serving, writer, inflight, connection>>

RefPaths == {S_api_stats, S_api, S_stats}

NextRef ==
    \/ g.server = "nil" /\ \E r \in {"api", "root"}, path \in {S_stats, S_root} :
           Handle(r, "GET", path, "H1")
    \/ g.server = "nil" /\ RouteNoted(S_api, "api")
    \/ g.server = "nil" /\ \E m \in Middlewares : AppUse(m)
    \/ Listen
    \/ \E path \in RefPaths : AppRequest(Request("GET", path, NilParams))

SpecRef == Init /\ [][NextRef]_vars

----------------------------------------------------------------------------
(* The loop of handleConnection over the requests of one connection *)

S_keep_alive == <<"k", "e", "e", "p", "-", "a", "l", "i", "v", "e">>

(* strings.EqualFold, on the letters of the alphabet *)
EqualFold(s, t) == ToUpper(s) = ToUpper(t)

(* fault: the header is compared letter for letter *)
shouldKeepAlive_exact(req) ==
    (IF "Connection" \in DOMAIN req.Headers THEN req.Headers["Connection"] ELSE <<>>)
        = S_keep_alive

(* shouldKeepAlive: a missing header reads as "" *)
shouldKeepAlive(req) ==
    EqualFold(IF "Connection" \in DOMAIN req.Headers THEN req.Headers["Connection"]
              ELSE <<>>,
              S_keep_alive)

(* what a client sends: requests with a Connection header, or without one,
   and text that ParseRequest rejects *)
ConnectionHeaders ==
    {EmptyMap} \cup
    {"Connection" :> v : v \in {S_keep_alive, <<"K", "e", "e", "p", "-", "A", "l", "i", "v", "e">>,
                                <<"K", "E", "E", "P", "-", "A", "L", "I", "V", "E">>,
                                <<"c", "l", "o", "s", "e">>}}

Arrivals ==
    {[bad |-> FALSE, req |-> RequestFrom("GET", S_root, h, "ip1")] : h \in ConnectionHeaders}
    \cup {[bad |-> TRUE]}

(* the client sends on the connection *)
Arrive(item) ==
    /\ Len(connection.arrived) < MaxArrivals
    /\ connection' = [connection EXCEPT !.arrived = Append(@, item)]
    /\ UNCHANGED <<routers, g, last, prev, calls, ops>>
    /\ UNCHANGED <<reg, hb, rateLimitCollection, now, serving, writer, inflight>>

(* one turn of the loop of handleConnection on what was sent next: a
   request that does not parse ends the loop; a request is dispatched, and
   the loop goes on if shouldKeepAlive says so *)
ConnTurn ==
    /\ g.server = "listening"
    /\ connection.open
    /\ connection.read < Len(connection.arrived)
    /\ LET k == connection.read + 1
           item == connection.arrived[k]
       IN IF item.bad
          THEN /\ connection' = [connection EXCEPT !.read = k, !.open = FALSE,
                                                   !.closedBy = "parse"]
               /\ UNCHANGED <<last, prev, routers, g>>
          ELSE /\ last' = [kind |-> "app", router |-> g.rootRouter, req |-> item.req,
                           routers |-> routers, g |-> g, calls |-> calls,
                           st |-> handleRequest(GhastSeen(g, reg), RoutersSeen(routers, reg),
                                                NewContext(item.req))]
               /\ routers' = RoutersAfter(routers, last'.st.served, item.req.Method, 1)
               /\ g' = GhastAfterRequest(g)
               /\ prev' = Invoked(last)
               /\ connection' =
                      [connection EXCEPT
                          !.read = k,
                          !.handled = Append(@, k),
                          !.open = shouldKeepAlive(last'.st.req),
                          !.closedBy = IF shouldKeepAlive(last'.st.req)
                                       THEN "none" ELSE "header"]
    /\ UNCHANGED <<calls, ops>>
    /\ UNCHANGED <<reg, hb, rateLimitCollection, now, serving, writer, inflight>>

(* the client has hung up: reader.ReadString fails and the loop ends *)
ReadError ==
    /\ g.server = "listening"
    /\ connection.open
    /\ connection.read = Len(connection.arrived)
    /\ connection' = [connection EXCEPT !.open = FALSE, !.closedBy = "read"]
    /\ UNCHANGED <<routers, g, last, prev, calls, ops>>
    /\ UNCHANGED <<reg, hb, rateLimitCollection, now, serving, writer, inflight>>

NextConn ==
    \/ Listen
    \/ \E item \in Arrivals : Arrive(item)
    \/ ConnTurn
    \/ ReadError

SpecConn == Init /\ [][NextConn]_vars

----------------------------------------------------------------------------
(* RateLimitMiddleware run by several goroutines at once.  The map
   rateLimitCollection is package state with no lock: a goroutine reads the
   client's entry into locals (entry, exists, currentTime), decides on the
   locals, and writes the entry back.  inflight.reqs maps a request to where
   its goroutine is (pc) and to its locals, kept as a dispatch context whose
   collection is what the goroutine read.  Unsynchronised use of a Go map is
   a data race: the runtime may stop the program with "fatal error:
   concurrent map writes", or let the accesses through. *)

RaceIds == 1..(RequestsPerMinute + 1)

(* the middleware is entered for a request of the client *)
RateBegin(id) ==
    /\ serving
    /\ id \notin DOMAIN inflight.reqs
    /\ inflight' = [inflight EXCEPT !.reqs =
           MapPut(@, id, [pc |-> "load",
                          st |-> NewContext(RequestFrom("GET", S_stats, EmptyMap, "ip1"))])]
    /\ UNCHANGED <<routers, g, last, prev, calls, ops>>
    /\ UNCHANGED OthersButInflight

(* entry, exists := rateLimitCollection[clientIP]; currentTime := time.Now().Unix() *)
RateLoad(id) ==
    /\ serving
    /\ id \in DOMAIN inflight.reqs
    /\ inflight.reqs[id].pc = "load"
    /\ inflight' = [inflight EXCEPT !.reqs[id].st.collection = rateLimitCollection,
                                    !.reqs[id].st.time = now,
                                    !.reqs[id].pc = "loaded"]
    /\ UNCHANGED <<routers, g, last, prev, calls, ops>>
    /\ UNCHANGED OthersButInflight

(* the rest of the middleware, on the locals: 429, or the entry is written
   to the map and next.ServeHTTP is called *)
RateStore(id) ==
    /\ serving
    /\ id \in DOMAIN inflight.reqs
    /\ inflight.reqs[id].pc = "loaded"
    /\ LET r == RateLimitMiddleware(inflight.reqs[id].st)
           clientIP == r.st.req.ClientIP
       IN IF r.stop
          THEN /\ inflight' = [inflight EXCEPT !.reqs[id] = [pc |-> "rejected", st |-> r.st]]
               /\ UNCHANGED rateLimitCollection
          ELSE /\ rateLimitCollection' =
                      MapPut(rateLimitCollection, clientIP, r.st.collection[clientIP])
               /\ inflight' = [inflight EXCEPT !.reqs[id] =
                      [pc |-> "admitted",
                       st |-> RunHandlerFunc("H1", "none", r.st.req.Path, r.st)]]
    /\ UNCHANGED <<routers, g, last, prev, calls, ops>>
    /\ UNCHANGED <<reg, hb, now, serving, writer, connection>>

(* the runtime detects the map being used by two goroutines at once and
   stops the program *)
RateFatal(id) ==
    /\ serving
    /\ id \in DOMAIN inflight.reqs
    /\ inflight.reqs[id].pc = "loaded"
    /\ \E other \in DOMAIN inflight.reqs \ {id} :
           inflight.reqs[other].pc \in {"load", "loaded"}
    /\ serving' = FALSE
    /\ UNCHANGED <<routers, g, last, prev, calls, ops>>
    /\ UNCHANGED <<reg, hb, rateLimitCollection, now, writer, inflight, connection>>

NextRace ==
    \/ \E id \in RaceIds : RateBegin(id)
    \/ \E id \in RaceIds : RateLoad(id)
    \/ \E id \in RaceIds : RateStore(id)
    \/ \E id \in RaceIds : RateFatal(id)

SpecRace == Init /\ [][NextRace]_vars

----------------------------------------------------------------------------
(* Properties of one Router *)

(* the router a direct dispatch ran on, as it was then *)
LastRouter == last.routers[last.router]

Registered(rt, method, path) ==
    method \in DOMAIN rt.routes /\ path \in DOMAIN rt.routes[method]

ParamNames(template) ==
    {extractRouteParams(template)[i].name : i \in 1..Len(extractRouteParams(template))}

(* C1: with GET /users/me and GET /users/:id both registered, a GET of
   /users/me runs the handler stored at /users/me, once, and no handler of
   /users/:id *)
C1_ExactMatchPrecedence ==
    ( /\ last.kind = "router"
      /\ Registered(LastRouter, "GET", S_users_me)
      /\ Registered(LastRouter, "GET", S_users_id)
      /\ last.req.Method = "GET"
      /\ last.req.Path = S_users_me )
    => /\ Len(last.st.invoked) = 1
       /\ last.st.invoked[1].template = S_users_me
       /\ last.st.invoked[1].handler = LastRouter.routes["GET"][S_users_me].base

C1_Witness ==
    /\ last.kind = "router"
    /\ Registered(LastRouter, "GET", S_users_me)
    /\ Registered(LastRouter, "GET", S_users_id)
    /\ LastRouter.routes["GET"][S_users_me].base = "H1"
    /\ LastRouter.routes["GET"][S_users_id].base = "H2"
    /\ last.req.Method = "GET"
    /\ last.req.Path = S_users_me
    /\ Len(last.st.invoked) = 1
    /\ last.st.invoked[1].handler = "H1"

(* C2: with /users/:userId/posts/:postId registered for the request's
   method, a request for /users/456/posts/789 runs that template's handler
   with Params userId = 456 and postId = 789 *)
C2_ParameterExtraction ==
    ( /\ last.kind = "router"
      /\ Registered(LastRouter, last.req.Method, S_user_posts)
      /\ last.req.Path = S_users_456_posts_789 )
    => /\ Len(last.st.invoked) = 1
       /\ last.st.invoked[1].template = S_user_posts
       /\ last.st.invoked[1].params.m = (S_userId :> S_456) @@ (S_postId :> S_789)

(* C3: the Params a handler sees hold only parameter names of the template
   its request matched; none of the parameter names of the template an
   earlier request on the same router matched shows up beside them *)
C3_ParameterIsolation ==
    last.kind = "router" =>
        \A i \in 1..Len(last.st.invoked) :
            LET seen == last.st.invoked[i]
            IN /\ DOMAIN seen.params.m \subseteq ParamNames(seen.template)
               /\ \A j \in 1..Len(prev) :
                     (prev[j].router = seen.router /\ prev[j].template # seen.template)
                     => \A n \in ParamNames(prev[j].template) \ ParamNames(seen.template) :
                            n \notin DOMAIN seen.params.m

C3_Witness ==
    /\ last.kind = "router"
    /\ Len(prev) = 1
    /\ prev[1].router = last.router
    /\ prev[1].template = S_users_id
    /\ Len(last.st.invoked) = 1
    /\ last.st.invoked[1].template = S_users_me
    /\ S_id \notin DOMAIN last.st.invoked[1].params.m

(* C4: a request whose (method, path) has no route runs no handler and gets
   one response: status 404, body "404 Not Found" *)
C4_NotFound ==
    ( /\ last.kind = "router"
      /\ ~Registered(LastRouter, last.req.Method, last.req.Path) )
    => /\ last.st.invoked = <<>>
       /\ last.st.rw.conn = <<<<"head", 404>>, <<"body", "404 Not Found">>>>

C4_Witness ==
    /\ last.kind = "router"
    /\ last.req.Method \notin DOMAIN LastRouter.routes
    /\ DOMAIN LastRouter.routes # {}
    /\ last.req.Params.nil
    /\ last.st.invoked = <<>>
    /\ last.st.rw.conn = <<<<"head", 404>>, <<"body", "404 Not Found">>>>

(* C10: when a (method, path) was registered more than once, a request for
   it runs the handler of the latest registration, once, and no other *)
C10_Overwrite ==
    ( /\ last.kind = "router"
      /\ Len(CallsOf(last.calls, <<last.router, last.req.Method, last.req.Path>>)) >= 2 )
    => LET c == last.calls[<<last.router, last.req.Method, last.req.Path>>]
       IN /\ Len(last.st.invoked) = 1
          /\ last.st.invoked[1].handler = c[Len(c)].handler
          /\ Len(SelectSeq(last.st.events, LAMBDA e : e[2] = "handler")) = 1

C10_Witness ==
    /\ last.kind = "router"
    /\ Len(CallsOf(last.calls, <<last.router, last.req.Method, last.req.Path>>)) = 2
    /\ last.calls[<<last.router, last.req.Method, last.req.Path>>][1].handler = "H1"
    /\ last.calls[<<last.router, last.req.Method, last.req.Path>>][2].handler = "H2"
    /\ Len(last.st.invoked) = 1
    /\ last.st.invoked[1].handler = "H2"

----------------------------------------------------------------------------
(* Properties of router-level middleware *)

(* the latest Handle call for the route of the last dispatch *)
LastCall ==
    LET c == last.calls[<<last.router, last.req.Method, last.req.Path>>]
    IN c[Len(c)]

Count(seq, x) == Len(SelectSeq(seq, LAMBDA e : e = x))

(* the events of a handler h under middlewares whose first is outermost *)
FirstOutermost(middlewares, h) ==
    [i \in 1..Len(middlewares) |-> <<middlewares[i], "before">>]
    \o <<<<h, "handler">>>>
    \o [i \in 1..Len(middlewares) |-> <<middlewares[Len(middlewares) + 1 - i], "after">>]

(* C5: a route registered after Use(M1), Use(M2) runs M1-before, M2-before,
   H, M2-after, M1-after: the first middleware of the list is outermost *)
C5_MiddlewareOrder ==
    ( /\ last.kind = "router"
      /\ Len(last.st.invoked) = 1 )
    => last.st.events = FirstOutermost(LastCall.middlewares, LastCall.handler)

(* C9: a request runs exactly the middleware that the router had when its
   route was registered, each once, whatever Use added afterwards *)
C9_CapturedAtRegistration ==
    ( /\ last.kind = "router"
      /\ Len(last.st.invoked) = 1 )
    => \A m \in Middlewares :
          /\ Count(last.st.events, <<m, "before">>) = Count(LastCall.middlewares, m)
          /\ Count(last.st.events, <<m, "after">>) = Count(LastCall.middlewares, m)

C9_Witness ==
    /\ last.kind = "router"
    /\ Len(last.st.invoked) = 1
    /\ LastCall.middlewares = <<"M1">>
    /\ LastRouter.middlewares = <<"M1", "M2">>
    /\ last.st.events = <<<<"M1", "before">>, <<LastCall.handler, "handler">>,
                          <<"M1", "after">>>>

----------------------------------------------------------------------------
(* Properties of the application dispatcher *)

MountedPrefixes(gg) == {gg.routers[i].prefix : i \in 1..Len(gg.routers)}

(* the number of terminal responses of a dispatch: handlers run and 404s *)
Terminals(st) ==
    Len(SelectSeq(st.events, LAMBDA e : e[2] = "handler" \/ e[2] = "404"))

(* C6: with mounts at /api and /api/admin, a request for /api/admin/stats
   is given to the router mounted at /api/admin, with Path /stats, and the
   router mounted at /api is not given /admin/stats *)
C6_LongestPrefix ==
    ( /\ last.kind = "app"
      /\ {S_api, S_api_admin} \subseteq MountedPrefixes(last.g)
      /\ last.req.Path = S_api_admin_stats )
    => LET target == GroupOfPrefix(last.g.routers, S_api_admin, 1).router
       IN /\ last.st.served[1] = [router |-> target, path |-> S_stats]
          /\ \A i \in 1..Len(last.st.served) : last.st.served[i].path # S_admin_stats
          /\ Registered(last.routers[target], last.req.Method, S_stats)
             => /\ last.st.invoked[1].router = target
                /\ last.st.invoked[1].path = S_stats

C6_Witness ==
    /\ last.kind = "app"
    /\ Len(last.g.routers) = 2
    /\ last.g.routers[1].prefix = S_api /\ last.g.routers[1].router = "api"
    /\ last.g.routers[2].prefix = S_api_admin /\ last.g.routers[2].router = "admin"
    /\ last.req.Path = S_api_admin_stats
    /\ Len(last.st.invoked) >= 1
    /\ last.st.invoked[1].router = "admin"
    /\ last.st.invoked[1].path = S_stats

(* C7: when a mount matched, the request's Path is the incoming path again
   once the mount's router has returned: the root router, called next, is
   given it, and the request holds it at the end *)
C7_PathRestored ==
    ( /\ last.kind = "app"
      /\ Len(last.st.served) = 2 )
    => /\ last.st.served[2].path = last.req.Path
       /\ last.st.req.Path = last.req.Path

C7_Witness ==
    /\ last.kind = "app"
    /\ Len(last.st.served) = 2
    /\ last.st.served[1].path # last.req.Path
    /\ Len(last.st.invoked) >= 1
    /\ last.st.invoked[1].path = last.st.served[1].path
    /\ last.st.req.Path = last.req.Path

(* C8: handling a request ends with exactly one terminal response: one
   handler ran or one 404 was written, and one body went out *)
C8_OneResponse ==
    last.kind = "app"
    => /\ Terminals(last.st) = 1
       /\ Len(SelectSeq(last.st.rw.conn, LAMBDA w : w[1] = "body")) = 1

----------------------------------------------------------------------------
(* Properties of middleware scopes *)

(* the scope a middleware event belongs to, by the middleware's name *)
ScopeOf(e) ==
    IF e[2] \in {"handler", "404"} THEN e[2]
    ELSE IF e[1] \in GlobalMiddlewares THEN <<"global", e[2]>>
    ELSE IF e[1] \in RouteMiddlewares THEN <<"route", e[2]>>
    ELSE <<"mount", e[2]>>

Repeat(x, n) == [i \in 1..n |-> x]

(* the routeGroup that a dispatch through the mount at /api went to *)
ApiMount(gg) == GroupOfPrefix(gg.routers, S_api, 1)

(* the dispatch went through a mount and the mount's router ran a handler *)
MountHandled ==
    /\ last.kind = "app"
    /\ Len(last.st.served) = 2
    /\ Len(last.st.invoked) >= 1
    /\ last.st.invoked[1].router = last.st.served[1].router

(* C11: a request routed through a mount to a matched route enters the
   global middleware, then the mount's, then the router's, then the
   handler, and leaves them in the reverse order; nothing else runs *)
C11_ScopeOrder ==
    MountHandled =>
        LET nG == Len(last.g.middlewares)
            nM == Len(ApiMount(last.g).middlewares)
            nR == Len(last.routers[last.st.served[1].router]
                          .routes[last.req.Method][last.st.served[1].path].layers)
        IN [i \in 1..Len(last.st.events) |-> ScopeOf(last.st.events[i])]
           = Repeat(<<"global", "before">>, nG) \o Repeat(<<"mount", "before">>, nM)
             \o Repeat(<<"route", "before">>, nR) \o <<"handler">>
             \o Repeat(<<"route", "after">>, nR) \o Repeat(<<"mount", "after">>, nM)
             \o Repeat(<<"global", "after">>, nG)

(* C12: every middleware given to Route with a mount runs for every request
   the dispatcher routes to that mount, and for no other request *)
C12_MountMiddlewareApplied ==
    ( /\ last.kind = "app"
      /\ Len(last.g.routers) >= 1 )
    => \A i \in 1..Len(ApiMount(last.g).middlewares) :
          LET m == ApiMount(last.g).middlewares[i]
          IN (Count(last.st.events, <<m, "before">>) >= 1) <=> (Len(last.st.served) = 2)

----------------------------------------------------------------------------
(* Properties of the HandlerBuilder *)

(* C13: the handler built by NewHandlerBuilder(H).Use(M1).Use(M2).Build()
   enters M1, then M2, then H: the middleware of the first Use call is the
   outermost wrapper *)
C13_BuilderOrder ==
    last.kind = "built"
    => last.st.events = FirstOutermost(last.hb.uses, last.hb.handler.base)

----------------------------------------------------------------------------
(* Properties of the mount selection *)

(* path starts with prefix and the prefix ends at a segment boundary *)
AtBoundary(path, prefix) ==
    /\ Len(prefix) <= Len(path)
    /\ SubSeq(path, 1, Len(prefix)) = prefix
    /\ \/ prefix = <<"/">>
       \/ path = prefix
       \/ path[Len(prefix) + 1] = "/"

(* C14: a mount is selected for a path only if the path starts with its
   prefix and the prefix is "/", is the whole path, or is followed by "/"
   in the path; with no such mount none is selected (a mount at /use is not
   selected for /users); the test reads the path inside its length only *)
C14_PrefixBoundary ==
    last.kind = "app"
    => /\ Len(last.st.served) = 2
          <=> \E i \in 1..Len(last.g.routers) :
                 AtBoundary(last.req.Path, last.g.routers[i].prefix)
       /\ Len(last.st.served) = 2
          => \E i \in 1..Len(last.g.routers) :
                LET P == last.g.routers[i].prefix
                IN /\ AtBoundary(last.req.Path, P)
                   /\ last.st.served[1].path = StripPrefix(last.req.Path, P)
                   /\ last.st.served[1].router = GroupOfPrefix(last.g.routers, P, 1).router
       /\ \A i \in 1..Len(last.g.routers) :
             BoundaryIndex(last.req.Path, last.g.routers[i].prefix) < Len(last.req.Path)

C14_Witness ==
    /\ last.kind = "app"
    /\ MountedPrefixes(last.g) = {S_use}
    /\ last.req.Path = S_users
    /\ BoundaryIndex(last.req.Path, S_use) = 4
    /\ last.st.served = <<[router |-> "root", path |-> S_users]>>

----------------------------------------------------------------------------
(* Properties of the verb methods *)

(* the method each verb method stands for *)
VerbOf(name) ==
    CASE name = "Get" -> "GET" [] name = "Post" -> "POST" [] name = "Put" -> "PUT"
      [] name = "Delete" -> "DELETE" [] name = "Patch" -> "PATCH"
      [] name = "Head" -> "HEAD" [] name = "Options" -> "OPTIONS"

(* C15: a verb method called with (path, handler) leaves the Router as
   Handle(VERB, path, handler) does; a request runs the handler last
   registered through the verb method of its own method at its path, and
   no handler when only other verbs were registered there *)
C15_VerbAlias ==
    /\ reg.kind = "verb"
       => reg.after = HandleRouter(reg.before, VerbOf(reg.name), reg.path,
                                   HandlerFunc(reg.handler))
    /\ last.kind = "router"
       => \A name \in Verbs :
             VerbOf(name) = last.req.Method
             => LET c == CallsOf(last.calls, <<last.router, name, last.req.Path>>)
                IN IF c = <<>> THEN last.st.invoked = <<>>
                   ELSE /\ Len(last.st.invoked) = 1
                        /\ last.st.invoked[1].handler = c[Len(c)].handler

C15_Witness ==
    /\ reg.kind = "verb"
    /\ reg.name = "Put"
    /\ last.kind = "router"
    /\ last.req.Method = "PUT"
    /\ DOMAIN last.calls = {<<"api", "Put", S_users>>, <<"api", "Post", S_users>>}
    /\ Len(last.st.invoked) = 1
    /\ last.st.invoked[1].handler = "H2"
    /\ last.calls[<<"api", "Post", S_users>>][1].handler = "H1"

----------------------------------------------------------------------------
(* Properties of chained registration *)

(* the calls made one by one, each on recv itself *)
RECURSIVE OneByOne(_, _, _)
OneByOne(state, recv, cs) ==
    IF cs = <<>> THEN state
    ELSE OneByOne(Effect(state, recv, Head(cs)), recv, Tail(cs))

(* C16: every registration method returns the object it was called on, so
   a chain of registration calls leaves the routers and the application as
   the same calls made one by one on that object do *)
C16_Chaining ==
    reg.kind = "chain"
    => reg.after = OneByOne(reg.before, reg.recv, reg.calls)

C16_Witness ==
    /\ reg.kind = "chain"
    /\ reg.recv = "app"
    /\ reg.calls[1].name = "Get"
    /\ reg.calls[2].name = "Use"
    /\ reg.before.g.middlewares = <<>>
    /\ reg.after.g.middlewares = <<"M1">>
    /\ reg.after.routers["root"].middlewares = <<>>
    /\ Registered(reg.after.routers["root"], "GET", S_users)

----------------------------------------------------------------------------
(* Properties of path-specific middleware *)

(* the middleware UsePath had added for path when the route of the last
   dispatch was registered *)
PathMiddlewareThen(path) ==
    IF path \in DOMAIN LastCall.pathMiddlewares
    THEN LastCall.pathMiddlewares[path] ELSE <<>>

(* C17: a request runs the middleware that UsePath had added for exactly
   its route's path before the route was registered, each once, and no
   middleware added for another path *)
C17_PathMiddleware ==
    ( /\ last.kind = "router"
      /\ Len(last.st.invoked) = 1 )
    => \A m \in PathMiddlewares :
          /\ Count(last.st.events, <<m, "before">>)
                = Count(PathMiddlewareThen(last.req.Path), m)
          /\ Count(last.st.events, <<m, "after">>)
                = Count(PathMiddlewareThen(last.req.Path), m)

C17_Witness ==
    /\ last.kind = "router"
    /\ Len(last.st.invoked) = 1
    /\ last.req.Path = S_users_me
    /\ PathMiddlewareThen(S_users) = <<"P1">>
    /\ PathMiddlewareThen(S_users_me) = <<"P2">>
    /\ last.st.events = <<<<"P2", "before">>, <<LastCall.handler, "handler">>,
                          <<"P2", "after">>>>

----------------------------------------------------------------------------
(* Properties of middleware that ends the request *)

(* the position of the outermost Auth layer of a handler, or 0 *)
RECURSIVE AuthLayer(_, _)
AuthLayer(layers, i) ==
    IF i > Len(layers) THEN 0
    ELSE IF layers[i] = "Auth" THEN i
    ELSE AuthLayer(layers, i + 1)

(* the stored handler of the route the last dispatch matched *)
LastHandler == LastRouter.routes[last.req.Method][last.req.Path]

(* C18: when the authentication middleware of a matched route finds no
   Authorization token, it answers 401 and the layers inside it and the
   route handler do not run, while the layers outside it run to the end;
   with a token the handler runs *)
C18_ShortCircuit ==
    ( /\ last.kind = "router"
      /\ Registered(LastRouter, last.req.Method, last.req.Path)
      /\ AuthLayer(LastHandler.layers, 1) # 0 )
    => LET k == AuthLayer(LastHandler.layers, 1)
           outside == SubSeq(LastHandler.layers, 1, k - 1)
       IN IF HeaderGet(last.req, "Authorization") = ""
          THEN /\ last.st.invoked = <<>>
               /\ \A i \in 1..Len(last.st.events) : last.st.events[i][2] # "handler"
               /\ \A m \in Middlewares :
                     /\ Count(last.st.events, <<m, "before">>) = Count(outside, m)
                     /\ Count(last.st.events, <<m, "after">>) = Count(outside, m)
               /\ last.st.rw.conn = <<<<"head", 401>>, <<"body", "unauthorized">>>>
          ELSE /\ Len(last.st.invoked) = 1
               /\ last.st.invoked[1].handler = LastHandler.base
               /\ last.st.rw.conn = <<<<"head", 200>>, <<"body", LastHandler.base>>>>

C18_Witness ==
    /\ last.kind = "router"
    /\ Registered(LastRouter, last.req.Method, last.req.Path)
    /\ LastHandler.layers = <<"Auth", "M1">>
    /\ last.req.Headers = EmptyMap
    /\ last.st.events = <<<<"Auth", "reject">>>>
    /\ last.st.invoked = <<>>

----------------------------------------------------------------------------
(* Properties of the rate limiter *)

(* the requests of ip that got to the next handler in the 60 seconds
   starting at second t *)
ReachedInWindow(log, ip, t) ==
    {j \in 1..Len(log) : /\ log[j].ip = ip
                         /\ log[j].reached
                         /\ t <= log[j].time
                         /\ log[j].time < t + 60}

(* C19: of the requests of one client IP, at most RequestsPerMinute within
   any 60 seconds get to the next handler; a request that does not gets 429
   with the body "Too Many Requests" and no handler runs for it *)
C19_RateLimit ==
    last.kind = "limited"
    => /\ \A ip \in ClientIPs : \A i \in 1..Len(last.log) :
             Cardinality(ReachedInWindow(last.log, ip, last.log[i].time))
                <= RequestsPerMinute
       /\ ~last.log[Len(last.log)].reached
          => /\ last.st.invoked = <<>>
             /\ last.st.rw.conn = <<<<"head", 429>>, <<"body", "Too Many Requests">>>>

----------------------------------------------------------------------------
(* Properties of panic recovery *)

(* the last request went through RecoveryMiddleware to a handler that
   panicked *)
PanicUnderRecovery ==
    /\ last.kind = "conn"
    /\ \E i \in 1..Len(last.middlewares) : last.middlewares[i] = "Recovery"
    /\ \E i \in 1..Len(last.st.events) : last.st.events[i][2] = "panic"

Heads(conn) == SelectSeq(conn, LAMBDA w : w[1] = "head")

(* C20, as stated: under RecoveryMiddleware a panic of the handler does not
   get past the middleware, the response is a 500, and the serving loop
   goes on *)
C20_PanicRecovery ==
    PanicUnderRecovery
    => /\ ~last.st.panicking
       /\ serving
       /\ Heads(last.st.rw.conn) = <<<<"head", 500>>>>

(* C20, amended: under RecoveryMiddleware a panic of the handler does not
   get past the middleware, the serving loop goes on, and the error body is
   the last thing written; the response is a 500 when nothing had been
   written before the panic, and otherwise keeps the status already sent *)
C20_PanicRecoveryAmended ==
    PanicUnderRecovery
    => /\ ~last.st.panicking
       /\ serving
       /\ Len(Heads(last.st.rw.conn)) = 1
       /\ last.st.rw.conn[Len(last.st.rw.conn)] = <<"body", "Internal Server Error">>
       /\ IF last.st.invoked = <<>>
          THEN last.st.rw.conn = <<<<"head", 500>>, <<"body", "Internal Server Error">>>>
          ELSE last.st.rw.conn = <<<<"head", 200>>, <<"body", last.handler>>,
                                   <<"body", "Internal Server Error">>>>

C20_Witness ==
    /\ PanicUnderRecovery
    /\ last.handler = "HPanic"
    /\ last.middlewares = <<"M1", "Recovery">>
    /\ last.st.events = <<<<"M1", "before">>, <<"HPanic", "panic">>,
                          <<"Recovery", "recovered">>>>
    /\ last.st.rw.conn = <<<<"head", 500>>, <<"body", "Internal Server Error">>>>
    /\ serving
    /\ prev # <<>>

----------------------------------------------------------------------------
(* Properties of the ResponseWriter *)

(* C21: whatever calls are made on a ResponseWriter, the status line and
   the headers go out once, right before the first body, and not at all
   while nothing was sent; a Status call after the first write changes
   neither the stored status code nor what was emitted, and the stored
   code stays the emitted one *)
C21_WriteOnce ==
    writer.exists
    => /\ Len(Heads(writer.rw.conn)) = (IF writer.rw.written THEN 1 ELSE 0)
       /\ Len(writer.rw.sentHeaders) = (IF writer.rw.written THEN 1 ELSE 0)
       /\ writer.rw.written <=> writer.rw.conn # <<>>
       /\ writer.rw.written
          => /\ writer.rw.conn[1] = <<"head", writer.rw.statusCode>>
             /\ writer.rw.conn[2][1] = "body"
       /\ ( writer.call.name = "Status" /\ writer.before.written )
          => /\ writer.rw.statusCode = writer.before.statusCode
             /\ writer.rw.conn = writer.before.conn
             /\ writer.rw.sentHeaders = writer.before.sentHeaders

C21_Witness ==
    /\ writer.exists
    /\ writer.call = [name |-> "Status", statusCode |-> 500]
    /\ writer.before.written
    /\ writer.before.statusCode = 404
    /\ writer.rw.statusCode = 404
    /\ writer.rw.conn = <<<<"head", 404>>, <<"body", "a">>>>

----------------------------------------------------------------------------
(* Properties of parameterized templates *)

(* the templates that have a handler for the method on router rt *)
TemplatesFor(rt, method) ==
    IF method \in DOMAIN rt.routes THEN DOMAIN rt.routes[method] ELSE {}

(* the templates registered on router rt for any method *)
AllTemplates(rt) == UNION {DOMAIN rt.routes[m] : m \in DOMAIN rt.routes}

(* the values the :name segments of the template face in the path *)
Captures(template, path) ==
    LET ps == extractRouteParams(template)
    IN [n \in {ps[i].name : i \in 1..Len(ps)} |->
            LET i == CHOOSE j \in 1..Len(ps) : ps[j].name = n
            IN Split(path)[ps[i].position + 1]]

(* C22: a dispatch runs a handler exactly when a template registered for
   the request's method matches the path: the same number of segments,
   literal segments equal, every :name segment facing a non-empty segment;
   the handler that runs is the one of such a template *)
C22_MatcherSemantics ==
    last.kind = "router"
    => LET matching == {t \in TemplatesFor(LastRouter, last.req.Method) :
                            TemplateMatches(t, last.req.Path)}
       IN /\ last.st.invoked # <<>> <=> matching # {}
          /\ \A i \in 1..Len(last.st.invoked) : last.st.invoked[i].template \in matching

(* C23: when a parameterized template matches the path and has no handler
   for the request's method, while another template that matches the path
   has one, the dispatch runs the handler of such a template, once, and
   writes no 404 *)
C23_MethodFallThrough ==
    ( /\ last.kind = "router"
      /\ \E t \in AllTemplates(LastRouter) :
            /\ extractRouteParams(t) # <<>>
            /\ TemplateMatches(t, last.req.Path)
            /\ t \notin TemplatesFor(LastRouter, last.req.Method)
      /\ \E t \in TemplatesFor(LastRouter, last.req.Method) :
            TemplateMatches(t, last.req.Path) )
    => /\ Len(last.st.invoked) = 1
       /\ last.st.invoked[1].template \in TemplatesFor(LastRouter, last.req.Method)
       /\ TemplateMatches(last.st.invoked[1].template, last.req.Path)
       /\ Heads(last.st.rw.conn) # <<404>>

(* C24: a request that comes in with empty Params leaves Router.ServeHTTP
   with the captures of the template whose handler ran, and with empty
   Params when no handler ran *)
C24_WinningParams ==
    ( last.kind = "router" /\ last.req.Params = MakeParams )
    => IF last.st.invoked = <<>>
       THEN last.st.req.Params.m = EmptyMap
       ELSE last.st.req.Params.m =
                Captures(last.st.invoked[1].template, last.req.Path)

----------------------------------------------------------------------------
(* Properties of the dispatch through Ghast.handleRequest *)

IsTerminal(e) == e[2] \in {"handler", "404"}

(* C25: every request handled by the dispatcher is served by the root
   router once, as the last router to serve it, with the path the request
   came in with, inside the global middleware: the dispatch ends with the
   global middleware entered, the root router's handler or its 404, and
   the global middleware left *)
C25_RootFallback ==
    last.kind = "app"
    => LET served == last.st.served
           ev == last.st.events
           nG == Len(last.g.middlewares)
           n == Len(ev)
       IN /\ Len(SelectSeq(served, LAMBDA x : x.router = last.g.rootRouter)) = 1
          /\ served[Len(served)] = [router |-> last.g.rootRouter, path |-> last.req.Path]
          /\ n >= 2 * nG + 1
          /\ \A i \in 1..nG :
                /\ ev[n - 2 * nG - 1 + i] = <<last.g.middlewares[nG + 1 - i], "before">>
                /\ ev[n - nG + i] = <<last.g.middlewares[i], "after">>
          /\ IsTerminal(ev[n - nG])
          /\ ev[n - nG][2] = "404" => ev[n - nG][1] = last.g.rootRouter
          /\ ev[n - nG][2] = "handler"
             => last.st.invoked[Len(last.st.invoked)].router = last.g.rootRouter
          /\ Terminals(last.st) = Len(served)

C25_Witness ==
    /\ last.kind = "app"
    /\ last.g.middlewares = <<"M1">>
    /\ last.req.Path = S_api_stats
    /\ last.st.served = <<[router |-> "api", path |-> S_stats],
                          [router |-> "root", path |-> S_api_stats]>>
    /\ last.st.events = <<<<"M1", "before">>, <<"H1", "handler">>, <<"M1", "after">>,
                          <<"M1", "before">>, <<"root", "404">>, <<"M1", "after">>>>

(* the mounted prefixes that the path starts with at a segment boundary,
   and the longest of them *)
MatchingPrefixes(gg, path) == {P \in MountedPrefixes(gg) : AtBoundary(path, P)}

MatchedPrefix(gg, path) ==
    CHOOSE P \in MatchingPrefixes(gg, path) :
        \A Q \in MatchingPrefixes(gg, path) : Len(Q) <= Len(P)

(* C26: the router of the matched mount sees the path without the leading
   prefix, "/" when the path is the prefix, and the whole path when the
   prefix is "/" *)
C26_PathRewrite ==
    ( last.kind = "app" /\ MatchingPrefixes(last.g, last.req.Path) # {} )
    => LET P == MatchedPrefix(last.g, last.req.Path)
           path == last.req.Path
           seen == last.st.served[1].path
       IN /\ Len(last.st.served) = 2
          /\ P = <<"/">> => seen = path
          /\ (P # <<"/">> /\ path = P) => seen = <<"/">>
          /\ (P # <<"/">> /\ path # P)
             => /\ P \o seen = path
                /\ seen # <<>>
          /\ \A i \in 1..Len(last.st.invoked) :
                last.st.invoked[i].router = last.st.served[1].router
                => last.st.invoked[i].path = seen

C26_Witness ==
    /\ last.kind = "app"
    /\ MountedPrefixes(last.g) = {S_users, S_root}
    /\ last.req.Path = S_users
    /\ last.st.served[1] = [router |-> "api", path |-> S_root]
    /\ Len(last.st.invoked) = 1
    /\ last.st.invoked[1] = [handler |-> "H1", router |-> "api", template |-> S_root,
                             path |-> S_root, params |-> NilParams]

(* the positions in g.routers of the routeGroups registered with the prefix *)
GroupsAt(gg, P) == {i \in 1..Len(gg.routers) : gg.routers[i].prefix = P}

(* C27: when the prefix a request is matched to was mounted more than once,
   the request is dispatched to the Router of the latest of these mounts
   and to the Router of no earlier one *)
C27_Remount ==
    ( /\ last.kind = "app"
      /\ MatchingPrefixes(last.g, last.req.Path) # {}
      /\ Cardinality(GroupsAt(last.g, MatchedPrefix(last.g, last.req.Path))) >= 2 )
    => LET at == GroupsAt(last.g, MatchedPrefix(last.g, last.req.Path))
           latest == CHOOSE i \in at : \A j \in at : j <= i
           R2 == last.g.routers[latest].router
       IN /\ Len(last.st.served) = 2
          /\ last.st.served[1].router = R2
          /\ \A j \in at \ {latest} :
                last.g.routers[j].router # R2
                => \A k \in 1..Len(last.st.served) :
                       last.st.served[k].router # last.g.routers[j].router

----------------------------------------------------------------------------
(* Properties of the layering inside one Router *)

(* C28: on a request to a route that has router-level middleware (Use) and
   middleware of its own (UsePath for its path), every router-level
   middleware is entered before, and left after, every middleware of the
   route *)
C28_RouterLevelOutside ==
    ( /\ last.kind = "router"
      /\ Len(last.st.invoked) = 1 )
    => \A i, j \in 1..Len(last.st.events) :
          ( /\ last.st.events[i][1] \in Middlewares
            /\ last.st.events[j][1] \in PathMiddlewares
            /\ last.st.events[i][2] = last.st.events[j][2] )
          => IF last.st.events[i][2] = "before" THEN i < j ELSE j < i

----------------------------------------------------------------------------
(* Frame of a dispatch *)

(* C29: a step that dispatches a request (it is the only kind of step that
   changes last or prev) leaves every Router's route table, parameter
   table and middleware lists, and the dispatcher's mounts and middleware,
   as they were, whether a handler ran or a 404 was written *)
C29_DispatchFrame ==
    [][ (last' # last \/ prev' # prev)
        => (routers' = routers /\ g' = g /\ calls' = calls) ]_vars

C29_Witness ==
    /\ last.kind = "app"
    /\ last.req.Path = S_api_stats
    /\ last.st.served = <<[router |-> "api", path |-> S_stats],
                          [router |-> "root", path |-> S_api_stats]>>
    /\ "GET" \in DOMAIN last.routers["api"].routes
    /\ "GET" \notin DOMAIN last.routers["root"].routes
    /\ last.st.events = <<<<"H1", "handler">>, <<"root", "404">>>>
    /\ routers = last.routers
    /\ g = last.g

----------------------------------------------------------------------------
(* Properties of concurrent requests *)

(* the path a router mounted at prefix P is to see of the path *)
Rewritten(path, P) ==
    IF P = <<"/">> THEN path
    ELSE IF path = P THEN <<"/">>
    ELSE SubSeq(path, Len(P) + 1, Len(path))

(* C30: with requests in flight at the same time, in every interleaving of
   their steps every handler that ran for a request saw that request's
   Params and that request's path (rewritten for the mount it was matched
   to, whole in the root router), and once the mount has been left the
   request's Path is the one it came in with *)
C30_Isolation ==
    \A id \in DOMAIN inflight.reqs :
        LET q == inflight.reqs[id]
        IN /\ q.st.req.Params = q.req.Params
           /\ \A i \in 1..Len(q.st.invoked) :
                 /\ q.st.invoked[i].params = q.req.Params
                 /\ q.st.invoked[i].path =
                        IF i = 1 /\ q.matchedRouter # "nil"
                        THEN Rewritten(q.req.Path, MatchedPrefix(g, q.req.Path))
                        ELSE q.req.Path
           /\ \A i \in 1..Len(q.st.served) :
                 q.st.served[i].path =
                        IF i = 1 /\ q.matchedRouter # "nil"
                        THEN Rewritten(q.req.Path, MatchedPrefix(g, q.req.Path))
                        ELSE q.req.Path
           /\ q.pc \in {"scan", "matched", "root", "done"} => q.st.req.Path = q.req.Path

C30_Witness ==
    /\ DOMAIN inflight.reqs = {1, 2}
    /\ inflight.reqs[1].req = Request("GET", S_api_stats, NilParams)
    /\ inflight.reqs[2].req = Request("GET", S_api, MakeParams)
    /\ inflight.reqs[1].pc = "done"
    /\ inflight.reqs[2].pc = "served"
    /\ inflight.saved = (1 :> S_api_stats) @@ (2 :> S_api)
    /\ Len(inflight.reqs[1].st.invoked) = 1
    /\ inflight.reqs[1].st.invoked[1].path = S_stats
    /\ inflight.reqs[1].st.invoked[1].params = NilParams
    /\ Len(inflight.reqs[2].st.invoked) = 1
    /\ inflight.reqs[2].st.invoked[1].path = S_root
    /\ inflight.reqs[2].st.invoked[1].params = MakeParams
    /\ inflight.reqs[1].st.req.Path = S_api_stats

----------------------------------------------------------------------------
(* Properties of ParseRequest *)

(* the request line of a raw request: what precedes the first line break *)
RequestLine(rawRequest) ==
    IF \E i \in 1..Len(rawRequest) : rawRequest[i] = "\r"
    THEN SubSeq(rawRequest, 1,
                (CHOOSE i \in 1..Len(rawRequest) :
                    /\ rawRequest[i] = "\r"
                    /\ \A j \in 1..(i - 1) : rawRequest[j] # "\r") - 1)
    ELSE rawRequest

Spaces(line) == Cardinality({i \in 1..Len(line) : line[i] = " "})

(* the request line up to its first space *)
FirstWord(line) ==
    IF Spaces(line) = 0 THEN line
    ELSE SubSeq(line, 1, (CHOOSE i \in 1..Len(line) :
                             /\ line[i] = " "
                             /\ \A j \in 1..(i - 1) : line[j] # " ") - 1)

(* C31: a Request that ParseRequest returns has one of the uppercase verbs
   as its Method, no "?" in its Path and empty Params; a raw request whose
   request line is not three parts separated by single spaces, or whose
   method is not one of the verbs, gives an error and no Request *)
C31_ParsedShape ==
    last.kind = "parsed"
    => /\ ~last.out.err
          => /\ last.out.req.Method \in validMethods
             /\ \A i \in 1..Len(last.out.req.Path) : last.out.req.Path[i] # "?"
             /\ last.out.req.Params.m = EmptyMap
       /\ ( \/ Spaces(RequestLine(last.rawRequest)) # 2
            \/ FirstWord(RequestLine(last.rawRequest)) \notin validMethods )
          => /\ last.out.err
             /\ last.out.req = NoRequest

----------------------------------------------------------------------------
(* Properties of mounts and registration order *)

(* C32: a request dispatched to a mount whose Router has a route for it
   runs that route's handler first, on that Router, whether the route was
   on the Router when Route mounted it or was registered afterwards *)
C32_MountByReference ==
    ( /\ last.kind = "app"
      /\ Len(last.st.served) = 2
      /\ Registered(last.routers[last.st.served[1].router],
                    last.req.Method, last.st.served[1].path) )
    => LET R == last.st.served[1].router
           p == last.st.served[1].path
           c == last.calls[<<R, last.req.Method, p>>]
       IN /\ Len(last.st.invoked) >= 1
          /\ last.st.invoked[1].router = R
          /\ last.st.invoked[1].template = p
          /\ last.st.invoked[1].handler = c[Len(c)].handler

C32_Witness ==
    /\ last.kind = "app"
    /\ last.req.Path = S_api_stats
    /\ reg.kind = "route"
    /\ reg.router = "api"
    /\ ~Registered(reg.routers["api"], "GET", S_stats)
    /\ Registered(last.routers["api"], "GET", S_stats)
    /\ last.st.served[1] = [router |-> "api", path |-> S_stats]
    /\ Len(last.st.invoked) >= 1
    /\ last.st.invoked[1].router = "api"
    /\ last.st.invoked[1].handler = "H1"

----------------------------------------------------------------------------
(* Properties of the connection loop *)

(* the spellings of keep-alive sent by the clients of the model *)
KeepAliveSpellings ==
    {<<"k", "e", "e", "p", "-", "a", "l", "i", "v", "e">>,
     <<"K", "e", "e", "p", "-", "A", "l", "i", "v", "e">>,
     <<"K", "E", "E", "P", "-", "A", "L", "I", "V", "E">>}

AsksKeepAlive(item) ==
    /\ ~item.bad
    /\ "Connection" \in DOMAIN item.req.Headers
    /\ item.req.Headers["Connection"] \in KeepAliveSpellings

(* C33: the requests of a connection are dispatched in the order they
   arrived, each once; every request but the last dispatched one asked for
   keep-alive, in whatever letter case; and once a request has been
   handled the loop has ended on its header exactly when it did not ask for
   keep-alive, after which nothing more is read *)
C33_KeepAlive ==
    LET c == connection
        n == Len(c.handled)
    IN /\ \A i \in 1..n : c.handled[i] = i
       /\ \A i \in 1..Len(c.arrived) :
             (i < c.read \/ (i = c.read /\ c.open)) => AsksKeepAlive(c.arrived[i])
       /\ (n >= 1 /\ c.read = n)
          => /\ c.closedBy = "header" <=> ~AsksKeepAlive(c.arrived[n])
             /\ AsksKeepAlive(c.arrived[n]) => (c.open \/ c.closedBy = "read")
       /\ ~c.open => c.closedBy # "none"
       /\ n <= c.read

C33_Witness ==
    /\ Len(connection.arrived) = 3
    /\ \A i \in 1..3 : ~connection.arrived[i].bad
    /\ "Connection" \in DOMAIN connection.arrived[1].req.Headers
    /\ connection.arrived[1].req.Headers["Connection"] = <<"K", "e", "e", "p", "-", "A", "l", "i", "v", "e">>
    /\ connection.arrived[2].req.Headers = EmptyMap
    /\ connection.handled = <<1, 2>>
    /\ connection.read = 2
    /\ ~connection.open
    /\ connection.closedBy = "header"
    /\ last.kind = "app"
    /\ last.req = connection.arrived[2].req

----------------------------------------------------------------------------
(* Properties of the global middleware *)

(* C34: handling a request enters each middleware registered with g.Use
   once (once per registration), whether a mount serves the request or the
   root router does *)
C34_GlobalOnce ==
    last.kind = "app"
    => \A m \in Middlewares :
          Count(last.st.events, <<m, "before">>) = Count(last.g.middlewares, m)

(* C35: a request is handled inside every middleware that g.Use had added
   by the time of the dispatch, the latest added outermost, also when the
   mount and the route that serve it were registered before the Use call *)
C35_BoundAtDispatch ==
    last.kind = "app"
    => LET nG == Len(last.g.middlewares)
       IN /\ Len(last.st.events) >= nG + 1
          /\ \A i \in 1..nG :
                last.st.events[i] = <<last.g.middlewares[nG + 1 - i], "before">>
          /\ IsTerminal(last.st.events[nG + 1])

C35_Witness ==
    /\ last.kind = "app"
    /\ reg.kind = "route"
    /\ reg.g.middlewares = <<>>
    /\ Registered(reg.routers["api"], "GET", S_stats)
    /\ last.g.middlewares = <<"M1">>
    /\ last.req.Path = S_api_stats
    /\ SubSeq(last.st.events, 1, 3)
           = <<<<"M1", "before">>, <<"H1", "handler">>, <<"M1", "after">>>>

----------------------------------------------------------------------------
(* Properties of the rate limiter under concurrent requests *)

(* the requests of the client that got to the next handler *)
Admitted == {id \in DOMAIN inflight.reqs : inflight.reqs[id].pc = "admitted"}

(* C36: of the requests of one client that run the rate limiter at the same
   time, within one window, at most RequestsPerMinute get to the next
   handler, and once no request is between its read and its write the
   client's entry counts every request that got there *)
C36_ConcurrentLimit ==
    /\ Cardinality(Admitted) <= RequestsPerMinute
    /\ ( /\ Admitted # {}
         /\ \A id \in DOMAIN inflight.reqs : inflight.reqs[id].pc # "loaded" )
       => rateLimitCollection["ip1"].Count = Cardinality(Admitted)

====
